---- MODULE Spec2Model ----
(***************************************************************************)
(* State-machine model of db_cleaner: the run orchestrator (cli.main), the *)
(* per-table loop (cleaner.clean_table), the cascade walker                *)
(* (cleaner.cascade_delete), the relation graph builder (relations.py),    *)
(* the batch fetcher (pg.fetch_batch) and the archiver (archive.py).       *)
(*                                                                         *)
(* The database is a map from qualified table names to sets of rows; the   *)
(* connection sees `tx`, the committed content is `db`.  Every statement   *)
(* the engine issues is appended to `log`.                                 *)
(***************************************************************************)
EXTENDS Integers, Sequences, FiniteSets, TLC

(***************************************************************************)
(* Bounds of the model.                                                    *)
(***************************************************************************)
MaxBatchSize == 2

\* the clock seconds in which archive files are written: 0..MaxClock
MaxClock == 2

(***************************************************************************)
(* Table names.  A name is a (schema, table) pair; schema "" stands for a  *)
(* name written without a dot.                                             *)
(***************************************************************************)
QN(s, t) == [schema |-> s, table |-> t]

HasDot(name) == name.schema # ""

qualify_table(name) == IF HasDot(name) THEN name ELSE QN("public", name.table)

split_schema_table(q) == IF HasDot(q) THEN q ELSE QN("public", q.table)

\* child_name.split(".")[-1]
ShortName(name) == QN("", name.table)

Orders    == QN("public", "orders")
Items     == QN("public", "order_items")
Shipments == QN("public", "shipments")

QTables == {Orders, Items, Shipments}

NoTable == QN("", "")

(***************************************************************************)
(* Rows.  Every table has the columns id (the key), d (date column),       *)
(* order_id, item_id and ref; 0 is NULL.  The initial content holds the    *)
(* parent/child data of orders and order_items, rows that reference each   *)
(* other in a cycle (items 1 and 2 through ref; order 1, item 1, order 2,  *)
(* item 3 through order_id and item_id) and rows that are not expired.     *)
(* Orders 1 and 2 have the same date; shipments 1 and 2 belong to order 1, *)
(* one older and one newer than the cutoff.                                *)
(***************************************************************************)
Row(i, d, o, it, r) == [id |-> i, d |-> d, order_id |-> o, item_id |-> it, ref |-> r]

InitialDb ==
    [t \in QTables |->
        CASE t = Orders    -> {Row(1, 1, 0, 3, 0), Row(2, 1, 0, 1, 0), Row(3, 9, 0, 0, 0)}
          [] t = Items     -> {Row(1, 1, 1, 0, 2), Row(2, 1, 1, 0, 1),
                               Row(3, 2, 2, 0, 0), Row(4, 9, 3, 0, 0)}
          [] t = Shipments -> {Row(1, 1, 1, 1, 0), Row(2, 9, 1, 4, 0), Row(3, 2, 0, 0, 0)}]

\* get_primary_key_columns: orders and order_items have the primary key (id),
\* shipments has no primary key constraint
get_primary_key_columns(q) == IF q = Shipments THEN << >> ELSE <<"id">>

\* the tuple of a row's values at an ordered column list
TupleOf(row, cols) == [i \in 1..Len(cols) |-> row[cols[i]]]

HasNull(tup) == \E i \in 1..Len(tup) : tup[i] = 0

\* WHERE (cols) IN (VALUES keys): SQL equality never matches a NULL
RowsMatching(rows, cols, keys) ==
    {r \in rows : TupleOf(r, cols) \in keys /\ ~HasNull(TupleOf(r, cols))}

(***************************************************************************)
(* Predicates (pg.build_conditions_sql) as the database evaluates them.    *)
(***************************************************************************)
EvalCond(row, c) ==
    CASE c.op = "="           -> row[c.column] # 0 /\ row[c.column] = c.value
      [] c.op = "<>"          -> row[c.column] # 0 /\ row[c.column] # c.value
      [] c.op = "<"           -> row[c.column] # 0 /\ row[c.column] < c.value
      [] c.op = "IS NULL"     -> row[c.column] = 0
      [] c.op = "IS NOT NULL" -> row[c.column] # 0
      [] OTHER                -> FALSE

EvalConditions(row, conds) == \A i \in 1..Len(conds) : EvalCond(row, conds[i])

\* the operators of the configured predicates that the database parses; a
\* statement with any other text in the operator's place is a syntax error
DbOperators == {"=", "<>", "<", "IS NULL", "IS NOT NULL"}

\* build_conditions_sql puts cond["op"] into the statement as it is: the
\* composed SQL holds an operator the database does not parse
HasUnknownOp(conds) == \E i \in 1..Len(conds) : conds[i].op \notin DbOperators

(***************************************************************************)
(* The foreign keys of the database catalog (pg_constraint), in the order  *)
(* the catalog query returns them.  action is confdeltype.                 *)
(***************************************************************************)
FK(child, ccols, parent, pcols, action) ==
    [child |-> child, child_columns |-> ccols, parent |-> parent,
     parent_columns |-> pcols, action |-> action]

FKCatalog ==
    << FK(Items,     <<"order_id">>, Orders, <<"id">>, "a"),
       FK(Shipments, <<"order_id">>, Orders, <<"id">>, "c"),
       FK(Items,     <<"ref">>,      Items,  <<"id">>, "a"),
       FK(Shipments, <<"item_id">>,  Items,  <<"id">>, "c"),
       FK(Orders,    <<"item_id">>,  Items,  <<"id">>, "a") >>

(***************************************************************************)
(* Relation edges.  manual tells a configured edge from a discovered one.  *)
(***************************************************************************)
Rel(name, parent, ccols, pcols, conds, action, manual) ==
    [name |-> name, parent_table |-> parent, child_columns |-> ccols,
     parent_columns |-> pcols, conditions |-> conds,
     delete_action |-> action, manual |-> manual]

\* the deduplication key of union_relations and ensure_auto_children
RelKey(r) == <<r.parent_table, r.name, r.child_columns, r.parent_columns>>

\* the elements of s at the indices in idx, in order
RECURSIVE PickSeq(_, _, _)
PickSeq(s, idx, i) ==
    IF i > Len(s) THEN << >>
    ELSE (IF i \in idx THEN <<s[i]>> ELSE << >>) \o PickSeq(s, idx, i + 1)

\* variant: the ON DELETE action is not looked at
auto_find_fk_relations_KeepCascade(parent_qualified, exclude_cascade) ==
    LET p    == split_schema_table(parent_qualified)
        keep == {i \in 1..Len(FKCatalog) : FKCatalog[i].parent = p}
        rows == PickSeq(FKCatalog, keep, 1)
    IN  [i \in 1..Len(rows) |->
            Rel(rows[i].child, p, rows[i].child_columns, rows[i].parent_columns,
                << >>, rows[i].action, FALSE)]

auto_find_fk_relations(parent_qualified, exclude_cascade) ==
    LET p    == split_schema_table(parent_qualified)
        keep == {i \in 1..Len(FKCatalog) :
                    /\ FKCatalog[i].parent = p
                    /\ ~(exclude_cascade /\ FKCatalog[i].action = "c")}
        rows == PickSeq(FKCatalog, keep, 1)
    IN  [i \in 1..Len(rows) |->
            Rel(rows[i].child, p, rows[i].child_columns, rows[i].parent_columns,
                << >>, rows[i].action, FALSE)]

\* normalize_manual_relations raises ValueError for such a relation
InvalidMapping(r) ==
    \/ r.child_columns = << >>
    \/ r.parent_columns = << >>
    \/ Len(r.child_columns) # Len(r.parent_columns)

\* a configured relation: name, optional parent_table (NoTable when absent)
normalize_manual_relations(manual, main_table) ==
    [i \in 1..Len(manual) |->
        Rel(qualify_table(manual[i].name),
            qualify_table(IF manual[i].parent_table # NoTable
                          THEN manual[i].parent_table ELSE main_table),
            manual[i].child_columns, manual[i].parent_columns,
            manual[i].conditions, "-", TRUE)]

filter_relations(relations, skip_tables, skip_columns) ==
    LET norm_skip_tables == skip_tables \cup {qualify_table(t) : t \in skip_tables}
        keep == {i \in 1..Len(relations) :
                    /\ relations[i].name \notin norm_skip_tables
                    /\ ShortName(relations[i].name) \notin norm_skip_tables
                    /\ \A j \in 1..Len(relations[i].child_columns) :
                          relations[i].child_columns[j] \notin skip_columns}
    IN  PickSeq(relations, keep, 1)

\* variant: the auto-discovered edges come first
union_relations_AutoFirst(manual, auto) ==
    LET all  == auto \o manual
        keep == {i \in 1..Len(all) :
                    \A j \in 1..(i - 1) : RelKey(all[j]) # RelKey(all[i])}
    IN  PickSeq(all, keep, 1)

union_relations(manual, auto) ==
    LET all  == manual \o auto
        keep == {i \in 1..Len(all) :
                    \A j \in 1..(i - 1) : RelKey(all[j]) # RelKey(all[i])}
    IN  PickSeq(all, keep, 1)

\* the graph after ensure_auto_children(conn, graph, table, ...)
ensure_auto_children(g, table, skip_tables, skip_columns, exclude_cascade) ==
    LET auto_rels == filter_relations(auto_find_fk_relations(table, exclude_cascade),
                                      skip_tables, skip_columns)
        existing  == g[table]
        existing_keys == {RelKey(existing[i]) : i \in 1..Len(existing)}
        fresh == {i \in 1..Len(auto_rels) :
                    /\ RelKey(auto_rels[i]) \notin existing_keys
                    /\ \A j \in 1..(i - 1) : RelKey(auto_rels[j]) # RelKey(auto_rels[i])}
    IN  [g EXCEPT ![table] = existing \o PickSeq(auto_rels, fresh, 1)]

(***************************************************************************)
(* The batch fetcher.  fetch_batch is a SELECT ... [ORDER BY date] LIMIT N;*)
(* which rows a LIMIT keeps among equally ranked ones is the database's    *)
(* choice, so the operator yields the set of possible results (row sets).  *)
(***************************************************************************)
Eligible(rows, date_column, cutoff, conditions) ==
    {r \in rows : /\ (cutoff # 0 => (r[date_column] # 0 /\ r[date_column] < cutoff))
                  /\ EvalConditions(r, conditions)}

Min(a, b) == IF a < b THEN a ELSE b

\* variant: no LIMIT
fetch_batch_NoLimit(rows, date_column, cutoff, batch_size, conditions) ==
    {Eligible(rows, date_column, cutoff, conditions)}

fetch_batch(rows, date_column, cutoff, batch_size, conditions) ==
    LET el == Eligible(rows, date_column, cutoff, conditions)
    IN  {S \in SUBSET el :
            /\ Cardinality(S) = Min(batch_size, Cardinality(el))
            /\ (cutoff # 0 =>
                  \A r \in S : \A q \in el \ S : r[date_column] <= q[date_column])}

\* variant: no ORDER BY, the rows come back in any order
fetch_order_Any(S, date_column, cutoff) ==
    {L \in [1..Cardinality(S) -> S] :
        \A i \in 1..Cardinality(S) : \A j \in 1..Cardinality(S) : i # j => L[i] # L[j]}

\* the orders in which the SELECT may return the rows S: by date when there is
\* an ORDER BY (cutoff given), any order otherwise
fetch_order(S, date_column, cutoff) ==
    {L \in [1..Cardinality(S) -> S] :
        /\ \A i \in 1..Cardinality(S) : \A j \in 1..Cardinality(S) :
              i # j => L[i] # L[j]
        /\ (cutoff # 0 =>
              \A i \in 1..Cardinality(S) : \A j \in 1..Cardinality(S) :
                 i < j => L[i][date_column] <= L[j][date_column])}

(***************************************************************************)
(* The database's DELETE: the matching rows go, and so do the rows that    *)
(* reference a deleted row through an ON DELETE CASCADE foreign key.       *)
(***************************************************************************)
RECURSIVE CascadeClosure(_, _, _)
CascadeClosure(content, doomed, fuel) ==
    LET more == [t \in QTables |->
                   doomed[t] \cup
                   {r \in content[t] :
                      \E i \in 1..Len(FKCatalog) :
                         /\ FKCatalog[i].child = t
                         /\ FKCatalog[i].action = "c"
                         /\ ~HasNull(TupleOf(r, FKCatalog[i].child_columns))
                         /\ \E p \in doomed[FKCatalog[i].parent] :
                              TupleOf(p, FKCatalog[i].parent_columns)
                                = TupleOf(r, FKCatalog[i].child_columns)}]
    IN  IF more = doomed \/ fuel = 0 THEN more
        ELSE CascadeClosure(content, more, fuel - 1)

\* variant: the DELETE removes nothing
DbDelete_Noop(content, table, victims) == content

DbDelete(content, table, victims) ==
    LET doomed == CascadeClosure(content,
                      [t \in QTables |-> IF t = table THEN victims ELSE {}],
                      Cardinality(QTables))
    IN  [t \in QTables |-> content[t] \ doomed[t]]

(***************************************************************************)
(* Dictionaries with integer values (delete_totals, run_delete_totals).    *)
(***************************************************************************)
EmptyDict == [t \in {} |-> 0]

DictGet(dct, k) == IF k \in DOMAIN dct THEN dct[k] ELSE 0

\* dct[k] = dct.get(k, 0) + n
DictAdd(dct, k, n) ==
    [t \in (DOMAIN dct) \cup {k} |-> IF t = k THEN DictGet(dct, k) + n ELSE dct[t]]

RECURSIVE DictMerge(_, _, _)
\* for tbl, cnt in src.items(): dst[tbl] = dst.get(tbl, 0) + cnt
DictMerge(dst, src, todo) ==
    IF todo = {} THEN dst
    ELSE LET k == CHOOSE x \in todo : TRUE
         IN  DictMerge(DictAdd(dst, k, src[k]), src, todo \ {k})

\* variant: the run counter is replaced by the batch counter
AccumulateRunTotals_Overwrite(run_totals, batch_totals) ==
    [t \in (DOMAIN run_totals) \cup (DOMAIN batch_totals) |->
        IF t \in DOMAIN batch_totals THEN batch_totals[t] ELSE run_totals[t]]

\* run_delete_totals after the batch counters were added to it
AccumulateRunTotals(run_totals, batch_totals) ==
    DictMerge(run_totals, batch_totals, DOMAIN batch_totals)

\* the rows of a result set as a list, in primary-key order
RECURSIVE RowList(_)
RowList(rows) ==
    IF rows = {} THEN << >>
    ELSE LET r == CHOOSE x \in rows : \A y \in rows : x.id <= y.id
         IN  <<r>> \o RowList(rows \ {r})

\* archive_buffers.setdefault(table, []).extend(rows)
BufferExtend(buffers, table, rows) ==
    IF \E i \in 1..Len(buffers) : buffers[i].table = table
    THEN [i \in 1..Len(buffers) |->
            IF buffers[i].table = table
            THEN [buffers[i] EXCEPT !.rows = @ \o rows] ELSE buffers[i]]
    ELSE Append(buffers, [table |-> table, rows |-> rows])

(***************************************************************************)
(* The archive directory: files by name.  The name of a file is the table  *)
(* and the clock second of the write; open(..., mode="w") replaces a file  *)
(* of the same name.                                                       *)
(***************************************************************************)
archive_file_name(table_name, now) == [table |-> table_name, ts |-> now]

archive_to_csv(dsk, rows, table_name, now) ==
    {f \in dsk : f.name # archive_file_name(table_name, now)}
        \cup {[name |-> archive_file_name(table_name, now), rows |-> rows]}

\* the directory after the files i.. of a flush were written
RECURSIVE WriteFiles(_, _, _, _)
WriteFiles(dsk, files, i, now) ==
    IF i > Len(files) THEN dsk
    ELSE WriteFiles(archive_to_csv(dsk, files[i].rows, files[i].table, now),
                    files, i + 1, now)

(***************************************************************************)
(* Configuration.  The relations a table may configure (`related`), the    *)
(* skip rules and the per-table settings are drawn at Init.                *)
(***************************************************************************)
Manual(name, parent, ccols, pcols, conds) ==
    [name |-> name, parent_table |-> parent, child_columns |-> ccols,
     parent_columns |-> pcols, conditions |-> conds]

Cond(column, op, value) == [column |-> column, op |-> op, value |-> value]

\* now - expire_days, as a date value (0 stands for no cutoff)
CutoffDate == 5

ManualCandidates ==
    << Manual(QN("", "order_items"), NoTable, <<"order_id">>, <<"id">>, << >>),
       Manual(QN("", "order_items"), QN("", "order_items"), <<"ref">>, <<"id">>, << >>),
       Manual(QN("", "orders"), QN("public", "order_items"), <<"item_id">>, <<"id">>, << >>),
       Manual(QN("public", "shipments"), NoTable, <<"order_id">>, <<"id">>,
              <<Cond("d", "<", CutoffDate)>>),
       Manual(QN("", "shipments"), QN("", "orders"), <<"item_id">>, <<"item_id">>, << >>) >>

RelatedChoices ==
    {PickSeq(ManualCandidates, idx, 1) : idx \in SUBSET (1..Len(ManualCandidates))}

\* the relation lists that are combined with every skip rule and name form
CoreRelatedChoices ==
    {PickSeq(ManualCandidates, idx, 1) : idx \in {{}, {1}, {1, 4}, 1..Len(ManualCandidates)}}

NoSkip == [tables |-> {}, columns |-> {}]

SkipChoices ==
    { NoSkip,
      [tables |-> {QN("", "orders")},          columns |-> {}],
      [tables |-> {QN("", "order_items")},     columns |-> {}],
      [tables |-> {QN("public", "shipments")}, columns |-> {}],
      [tables |-> {},                          columns |-> {"ref", "item_id"}] }

\* archive flag and archive_path of a table: off, on with a path, on without
ArchiveChoices ==
    { [archive |-> FALSE, archive_path |-> FALSE],
      [archive |-> TRUE,  archive_path |-> TRUE],
      [archive |-> TRUE,  archive_path |-> FALSE] }

\* a relation whose mapping has two child columns for one parent column
BadManual == Manual(QN("", "order_items"), NoTable, <<"order_id", "ref">>, <<"id">>, << >>)

\* a relation on two columns, listed in another order than the key columns
\* of the composite key below
CompositeManual ==
    Manual(QN("", "order_items"), NoTable, <<"ref", "order_id">>, <<"id", "d">>, << >>)

\* a composite key of orders
CompositeKey == <<"d", "id">>

\* a predicate whose op is no SQL operator
UnknownCond == Cond("d", "BETWIXT", 2)

\* a relation with such a predicate
UnknownOpManual ==
    Manual(QN("", "order_items"), NoTable, <<"item_id">>, <<"id">>, <<UnknownCond>>)

\* the relation lists combined with every shape of cfg.tables
LiteRelatedChoices ==
    {PickSeq(ManualCandidates, idx, 1) : idx \in {{1}, {1, 4}}}

\* the parent predicates a table may configure (`conditions`)
ConditionChoices == { << >>, <<Cond("d", "<>", 2)>> }

(***************************************************************************)
(* The dry_run setting.  key is the value of the dry_run key of the YAML   *)
(* file ("absent": no such key; "null": the key without a value), env the  *)
(* value of the DRY_RUN environment variable ("unset": not in the          *)
(* environment).                                                           *)
(***************************************************************************)
DryRunKeys == {"absent", "true", "false", "null"}

DryRunEnvs == {"unset", "true", "True", "false", ""}

\* str.lower() on the values above
Lower(str) == IF str = "True" THEN "true" ELSE str

\* config['dry_run'] after load_config ("absent" when the dict has no key):
\* the environment variable, when set, replaces the file's value
load_config_dry_run(key, env) ==
    IF env # "unset"
    THEN (IF Lower(env) \in {"true", "1", "yes", "on"} THEN "true" ELSE "false")
    ELSE key

\* variant: the default of a missing key is False
main_dry_run_DefaultFalse(value) == value = "true"

\* bool(cfg.get("dry_run", True)) in cli.main
main_dry_run(value) ==
    CASE value = "absent" -> TRUE
      [] value = "true"   -> TRUE
      [] value = "false"  -> FALSE
      [] value = "null"   -> FALSE

\* the settings combined with every configuration: dry_run written in
\* the file, DRY_RUN not in the environment
PlainDryRunSources == {<<"true", "unset">>, <<"false", "unset">>}

TableConf(name, related, auto, excl, bs, nocut, arch, tmo, conds, enable) ==
    [name |-> name, enable |-> enable, key_columns |-> <<"id">>, date_column |-> "d",
     batch_size |-> bs, time_out |-> tmo, conditions |-> conds,
     disable_cutoff |-> nocut, related |-> related,
     auto_discover_related |-> auto, exclude_cascade_fk |-> excl,
     archive |-> arch.archive, archive_path |-> arch.archive_path]

VARIABLES
    cfg,                \* the loaded configuration (cli.main)
    db,                 \* committed content of the database
    tx,                 \* content as seen by the engine's connection
    pc,                 \* position of the run
    ti,                 \* index into cfg.tables of the table being cleaned
    relations_graph,    \* parent table -> list of edges (clean_table)
    keys,               \* key tuples of the current batch
    stack,              \* the walker's call stack (cascade_delete frames)
    edge_path,          \* edge keys on the current DFS descent
    discovered_auto,    \* tables already lazily extended in this batch
    delete_totals,      \* batch_delete_totals / dry_run_totals
    archive_buffers,    \* list of [table, rows] in insertion order
    run_delete_totals,  \* per-table totals over the committed batches
    total_deleted,      \* sum of the committed batches' key counts
    csv,                \* the CSV files written, in order
    log,                \* the statements issued and the CYCLE warnings, in order
    exit_code,          \* -1 while running, then the process status
    batch,              \* number of non-empty batches fetched so far
    ninv,               \* number of walker invocations so far
    db0,                \* committed content when the current loop iteration began
    failed,             \* "" or the position at which a database error was raised
    fetch_dates,        \* per batch fetched for the current table: the date_col
                        \* values of its rows, in the order returned
    summaries,          \* the dry-run summaries printed, in order
    clock,              \* the clock second of the latest archive write
    disk,               \* the files of the archive directory
    abort               \* "" or why the run ended without a database error:
                        \* "config" (invalid relation), "archive" (CSV write failed)

vars == <<cfg, db, tx, pc, ti, relations_graph, keys, stack, edge_path,
          discovered_auto, delete_totals, archive_buffers, run_delete_totals,
          total_deleted, csv, log, exit_code, batch, ninv, db0, failed,
          fetch_dates, summaries, clock, disk, abort>>

EmptyGraph == [t \in QTables |-> << >>]

Init ==
    /\ \E key \in DryRunKeys, env \in DryRunEnvs,
          second \in {"shipments", "orders"},
          bad \in 0..2, dis \in 0..2, comp \in BOOLEAN, badop \in 0..3 :
       LET dry  == main_dry_run(load_config_dry_run(key, env))
           \* the shapes of cfg.tables and of the dry_run setting that are
           \* combined with the short relation lists only
           lite == \/ second = "orders" \/ bad # 0 \/ dis # 0 \/ comp \/ badop # 0
                   \/ <<key, env>> \notin PlainDryRunSources
       IN
       \E arch \in ArchiveChoices,
          skip \in (IF lite THEN {NoSkip} ELSE SkipChoices),
          qualified \in (IF lite THEN {TRUE} ELSE BOOLEAN),
          auto \in BOOLEAN, excl \in BOOLEAN,
          bs \in 0..MaxBatchSize, nocut \in BOOLEAN,
          related \in (IF lite THEN LiteRelatedChoices ELSE RelatedChoices),
          conds \in (IF lite THEN {<< >>} ELSE ConditionChoices) :
          /\ <<key, env>> \notin PlainDryRunSources =>
                (related = <<ManualCandidates[1]>> /\ skip = NoSkip /\ qualified
                 /\ conds = << >> /\ ~nocut /\ second = "shipments" /\ bad = 0
                 /\ dis = 0 /\ ~comp /\ badop = 0 /\ ~auto /\ bs = MaxBatchSize)
          /\ (dry /\ <<key, env>> \in PlainDryRunSources) => ~arch.archive
          /\ related \notin CoreRelatedChoices => (skip = NoSkip /\ qualified /\ ~nocut /\ conds = << >>)
          /\ ~auto => excl
          /\ (second = "orders" \/ bad # 0) =>
                (related \in LiteRelatedChoices /\ skip = NoSkip /\ qualified
                 /\ conds = << >>)
          /\ second = "orders" => bad = 0
          /\ dis # 0 =>
                (related \in LiteRelatedChoices /\ skip = NoSkip /\ qualified
                 /\ conds = << >> /\ ~nocut /\ second = "shipments"
                 /\ bad \in {0, dis})
          /\ comp =>
                (related \in LiteRelatedChoices /\ skip = NoSkip /\ qualified
                 /\ conds = << >> /\ second = "shipments" /\ bad = 0 /\ dis = 0)
          /\ badop # 0 =>
                (related \in LiteRelatedChoices /\ skip = NoSkip /\ qualified
                 /\ conds = << >> /\ ~nocut /\ second = "shipments" /\ bad = 0
                 /\ dis = 0 /\ ~comp /\ ~auto)
          /\ cfg = [dry_run |-> dry,
                    dry_run_key |-> key,
                    DRY_RUN |-> env,
                    skip_tables |-> skip.tables,
                    skip_columns |-> skip.columns,
                    tables |->
                      << [TableConf(QN(IF qualified THEN "public" ELSE "", "orders"),
                                    related \o (IF bad = 1 THEN <<BadManual>> ELSE << >>)
                                            \o (IF comp THEN <<CompositeManual>>
                                                ELSE << >>)
                                            \o (IF badop = 3 THEN <<UnknownOpManual>>
                                                ELSE << >>),
                                    auto, excl, bs, nocut, arch, 30,
                                    IF badop = 1 THEN <<UnknownCond>> ELSE conds,
                                    dis # 1)
                            EXCEPT !.key_columns =
                                      IF comp THEN CompositeKey ELSE <<"id">>],
                         IF second = "orders"
                         THEN TableConf(QN(IF qualified THEN "public" ELSE "", "orders"),
                                        related, auto, excl, bs, nocut, arch, 30, conds,
                                        TRUE)
                         ELSE TableConf(QN(IF qualified THEN "public" ELSE "", "shipments"),
                                        IF bad = 2 THEN <<BadManual>> ELSE << >>,
                                        auto, excl, bs, nocut, arch, 0,
                                        IF badop = 2 THEN <<UnknownCond>> ELSE conds,
                                        dis # 2) >>]
    /\ db = InitialDb
    /\ tx = InitialDb
    /\ pc = "main"
    /\ ti = 1
    /\ relations_graph = EmptyGraph
    /\ keys = {}
    /\ stack = << >>
    /\ edge_path = {}
    /\ discovered_auto = {}
    /\ delete_totals = EmptyDict
    /\ archive_buffers = << >>
    /\ run_delete_totals = EmptyDict
    /\ total_deleted = 0
    /\ csv = << >>
    /\ log = << >>
    /\ exit_code = -1
    /\ batch = 0
    /\ ninv = 0
    /\ db0 = InitialDb
    /\ failed = ""
    /\ fetch_dates = << >>
    /\ summaries = << >>
    /\ clock = 0
    /\ disk = {}
    /\ abort = ""

conf == cfg.tables[ti]

table == qualify_table(conf.name)

Ev(op, tbl, inv, sub, n) ==
    [op |-> op, tbl |-> tbl, inv |-> inv, sub |-> sub, n |-> n, batch |-> batch,
     pass |-> ti]

\* variant: the connection stays open
conn_close_Never(lg) == lg

\* the finally of cli.main: conn.close()
conn_close(lg) == Append(lg, Ev("CLOSE", NoTable, 0, 0, 0))

(***************************************************************************)
(* clean_table, before the loop: enable and skip checks, graph build.      *)
(***************************************************************************)
\* variant: the filter rules are not applied to the top-level table
TopLevelSkipped_Never(c, skip_tables, skip_columns) == FALSE

\* cleaner.py line 268
TopLevelSkipped(c, skip_tables, skip_columns) ==
    c.name \in skip_tables \/ c.date_column \in skip_columns

BuildGraph(c, skip_tables, skip_columns) ==
    LET main   == qualify_table(c.name)
        manual == filter_relations(normalize_manual_relations(c.related, main),
                                   skip_tables, skip_columns)
        auto   == IF c.auto_discover_related
                  THEN filter_relations(
                         auto_find_fk_relations(main, c.exclude_cascade_fk),
                         skip_tables, skip_columns)
                  ELSE << >>
        merged == union_relations(manual, auto)
    IN  [t \in QTables |->
            PickSeq(merged, {i \in 1..Len(merged) : merged[i].parent_table = t}, 1)]

\* cutoff_date of clean_table (0: disable_cutoff)
cutoff_date(c) == IF c.disable_cutoff THEN 0 ELSE CutoffDate

\* the table gets past the enable and skip checks
Processed(c) == c.enable /\ ~TopLevelSkipped(c, cfg.skip_tables, cfg.skip_columns)

HasInvalidRelation(c) == \E i \in 1..Len(c.related) : InvalidMapping(c.related[i])

\* normalize_manual_relations raises: the ValueError leaves clean_table and
\* main, whose finally closes the connection
ConfigInvalid ==
    /\ pc = "main"
    /\ ti <= Len(cfg.tables)
    /\ Processed(conf)
    /\ HasInvalidRelation(conf)
    /\ abort' = "config"
    /\ log' = conn_close(log)
    /\ exit_code' = 1
    /\ pc' = "exit"
    /\ UNCHANGED <<cfg, clock, disk, fetch_dates, summaries, db, tx, ti,
                   relations_graph, keys, stack, edge_path, discovered_auto,
                   delete_totals, archive_buffers, run_delete_totals, total_deleted,
                   csv, batch, ninv, db0, failed>>

StartTable ==
    /\ pc = "main"
    /\ ti <= Len(cfg.tables)
    /\ Processed(conf) => ~HasInvalidRelation(conf)
    /\ IF ~conf.enable \/ TopLevelSkipped(conf, cfg.skip_tables, cfg.skip_columns)
       THEN /\ ti' = ti + 1
            /\ UNCHANGED <<pc, relations_graph, run_delete_totals, total_deleted, log>>
       ELSE /\ relations_graph' = BuildGraph(conf, cfg.skip_tables, cfg.skip_columns)
            /\ total_deleted' = 0
            /\ run_delete_totals' = EmptyDict
            /\ log' = IF conf.auto_discover_related
                      THEN Append(log, Ev("CATALOG", table, 0, 0, 0)) ELSE log
            /\ pc' = "fetch"
            /\ UNCHANGED ti
    /\ db0' = db
    /\ fetch_dates' = << >>
    /\ UNCHANGED <<cfg, clock, disk, abort, summaries, db, tx, keys, stack, edge_path, discovered_auto,
                   delete_totals, archive_buffers, csv, exit_code, batch, ninv, failed>>

(***************************************************************************)
(* The loop of clean_table: fetch a batch, begin it.                       *)
(***************************************************************************)
(***************************************************************************)
(* The error log of the cursor (sql_render.ErrorLoggingCursorParam): when  *)
(* a statement raises psycopg2.Error the rendered SQL is shortened and     *)
(* emitted after the [SQL-ERROR] prefix.  A text is a sequence of          *)
(* characters.                                                             *)
(***************************************************************************)
\* a rendered statement of n characters
SqlText(n) == [i \in 1..n |-> "s"]

\* the lengths of the rendered statements (a statement grows with the
\* number of keys and predicates it holds)
RenderedLengths == {120, 1999, 2000, 2001, 2400}

\* utils._shorten
_shorten(text, max_len) ==
    IF Len(text) > max_len THEN SubSeq(text, 1, max_len) \o <<".", ".", ".">>
    ELSE text

\* the text execute() emits after the prefix: _shorten(full_sql), with the
\* default max_len
SqlErrorMessage(full_sql) == _shorten(full_sql, 2000)

\* the fetch statement holds an operator the database does not parse: the
\* cursor logs the statement ([SQL-ERROR], the event's n is the length of
\* the text emitted) and psycopg2.Error leaves
\* clean_table and main, outside the try block of the batch
FetchSqlError ==
    /\ pc = "fetch"
    /\ HasUnknownOp(conf.conditions)
    /\ failed' = pc
    /\ tx' = db
    /\ \E n \in RenderedLengths :
          log' = conn_close(Append(log, Ev("SQLERR", table, 0, 0,
                                           Len(SqlErrorMessage(SqlText(n))))))
    /\ archive_buffers' = << >>
    /\ exit_code' = 1
    /\ pc' = "exit"
    /\ UNCHANGED <<cfg, clock, disk, abort, fetch_dates, summaries, db, ti,
                   relations_graph, keys, stack, edge_path, discovered_auto,
                   delete_totals, run_delete_totals, total_deleted, csv, batch,
                   ninv, db0>>

Fetch ==
    /\ pc = "fetch"
    /\ ~HasUnknownOp(conf.conditions)
    /\ \E S \in fetch_batch(tx[table], conf.date_column, cutoff_date(conf),
                            conf.batch_size, conf.conditions) :
       \E L \in fetch_order(S, conf.date_column, cutoff_date(conf)) :
          /\ log' = Append(log, Ev("FETCH", table, 0, 0, Len(L)))
          /\ IF L = << >>
             THEN /\ pc' = "main"
                  /\ ti' = ti + 1
                  /\ UNCHANGED <<keys, batch, fetch_dates>>
             ELSE /\ keys' = {TupleOf(L[i], conf.key_columns) : i \in 1..Len(L)}
                  /\ fetch_dates' = Append(fetch_dates,
                                           [i \in 1..Len(L) |-> L[i][conf.date_column]])
                  /\ batch' = batch + 1
                  /\ pc' = "batch"
                  /\ UNCHANGED ti
    /\ UNCHANGED <<cfg, clock, disk, abort, summaries, db, tx, relations_graph, stack, edge_path, discovered_auto,
                   delete_totals, archive_buffers, run_delete_totals, total_deleted,
                   csv, exit_code, ninv, db0, failed>>

Frame(tbl, key_columns, parent_keys, inv, caller, via) ==
    [table |-> tbl, key_columns |-> key_columns, parent_keys |-> parent_keys,
     ei |-> 1, phase |-> "enter", inv |-> inv, caller |-> caller, via |-> via]

\* statement timeout, fresh per-batch state, top-level call of the walker
BeginBatch ==
    /\ pc = "batch"
    /\ discovered_auto' = {}
    /\ log' = IF conf.time_out # 0
              THEN Append(log, Ev("SET", NoTable, 0, 0, conf.time_out)) ELSE log
    /\ delete_totals' = EmptyDict
    /\ archive_buffers' = << >>
    /\ edge_path' = {}
    /\ ninv' = ninv + 1
    /\ stack' = << Frame(table, conf.key_columns, keys, ninv + 1, 0, << >>) >>
    /\ pc' = "walk"
    /\ UNCHANGED <<cfg, clock, disk, abort, fetch_dates, summaries, db, tx, ti, relations_graph, keys, run_delete_totals,
                   total_deleted, csv, exit_code, batch, db0, failed>>

(***************************************************************************)
(* The cascade walker.  One frame of `stack` is one invocation of          *)
(* cascade_delete; its phase is the part of the body it has reached:       *)
(* enter (lazy extension), edges (the for loop), then count (dry-run) or   *)
(* archive and delete (execute).                                           *)
(***************************************************************************)
Top == stack[Len(stack)]

\* variant: the current table is deleted before its outgoing edges are walked
NextPhase_ParentFirst(phase, dry_run, archive) ==
    CASE phase = "enter"   -> IF dry_run THEN "edges"
                              ELSE IF archive THEN "archive" ELSE "delete"
      [] phase = "archive" -> "delete"
      [] phase = "delete"  -> "edges"
      [] phase = "edges"   -> IF dry_run THEN "count" ELSE "return"
      [] phase = "count"   -> "return"

\* variant: the final part does not look at dry_run
NextPhase_IgnoreDry(phase, dry_run, archive) ==
    CASE phase = "enter"   -> "edges"
      [] phase = "edges"   -> IF archive THEN "archive" ELSE "delete"
      [] phase = "archive" -> "delete"
      [] phase = "count"   -> "return"
      [] phase = "delete"  -> "return"

\* variant: the rows are selected for the archive after their DELETE
NextPhase_DeleteFirst(phase, dry_run, archive) ==
    CASE phase = "enter"   -> "edges"
      [] phase = "edges"   -> IF dry_run THEN "count" ELSE "delete"
      [] phase = "delete"  -> IF archive THEN "archive" ELSE "return"
      [] phase = "archive" -> "return"
      [] phase = "count"   -> "return"

\* the order of the parts of cascade_delete's body
NextPhase(phase, dry_run, archive) ==
    CASE phase = "enter"   -> "edges"
      [] phase = "edges"   -> IF dry_run THEN "count"
                              ELSE IF archive THEN "archive" ELSE "delete"
      [] phase = "archive" -> "delete"
      [] phase = "count"   -> "return"
      [] phase = "delete"  -> "return"

\* the exclude_cascade argument of the walker's call of ensure_auto_children
LazyExcludeCascade(c) == TRUE

\* edge_path.add(edge_key)
edge_path_add(path, edge_key) == path \cup {edge_key}

\* variant: the edge key stays in edge_path
edge_path_remove_Never(path, edge_key) == path

\* edge_path.remove(edge_key)
edge_path_remove(path, edge_key) == path \ {edge_key}

\* variant: no cycle test
OnCycle_Never(edge_key, path) == FALSE

\* the cycle test on edge_path
OnCycle(edge_key, path) == edge_key \in path

\* index of a column in a column list
IndexOf(cols, c) == CHOOSE i \in 1..Len(cols) : cols[i] = c

ColSet(cols) == {cols[i] : i \in 1..Len(cols)}

\* variant: the leading values of the key, whatever the columns
ProjectKeys_Leading(parent_keys, current_key_columns, parent_cols) ==
    {SubSeq(pk, 1, Len(parent_cols)) : pk \in parent_keys}

\* the fast path of the key projection
ProjectKeys(parent_keys, current_key_columns, parent_cols) ==
    {[i \in 1..Len(parent_cols) |-> pk[IndexOf(current_key_columns, parent_cols[i])]] :
        pk \in parent_keys}

\* variant: one lookup statement per parent row
LookupStatements_PerRow(direct, parent_keys) ==
    IF direct THEN 0 ELSE Cardinality(parent_keys)

\* the number of lookup statements an edge costs: none on the fast path,
\* one SELECT ... WHERE (keys) IN (VALUES ...) for all parent keys otherwise
LookupStatements(direct, parent_keys) == IF direct THEN 0 ELSE 1

\* variant: an empty lookup result is used like any other
MissingParent_Never(direct, parent_keys_for_child) == FALSE

\* `if not parent_keys_for_child` in the lookup branch
MissingParent(direct, parent_keys_for_child) == ~direct /\ parent_keys_for_child = {}

fetch_needed_parent_keys(content, tbl, current_key_columns, parent_keys, needed_columns) ==
    {TupleOf(r, needed_columns) :
        r \in RowsMatching(content[tbl], current_key_columns, parent_keys)}

\* the rows the child statements (COUNT, SELECT pk) match
ChildMatches(content, child_table, child_cols, parent_keys_for_child, conditions) ==
    {r \in RowsMatching(content[child_table], child_cols, parent_keys_for_child) :
        EvalConditions(r, conditions)}

\* the frame has finished the given part: go on to the next or return
AfterPhase(phase) ==
    LET nxt == NextPhase(phase, cfg.dry_run, conf.archive) IN
    IF nxt # "return"
    THEN /\ stack' = [stack EXCEPT ![Len(stack)].phase = nxt]
         /\ UNCHANGED <<edge_path, pc, ti>>
    ELSE IF Len(stack) = 1
    THEN /\ stack' = << >>
         /\ UNCHANGED edge_path
         /\ pc' = IF cfg.dry_run THEN "summary" ELSE "commit"
         /\ UNCHANGED ti
    ELSE /\ stack' = [SubSeq(stack, 1, Len(stack) - 1)
                         EXCEPT ![Len(stack) - 1].ei = @ + 1]
         /\ edge_path' = edge_path_remove(edge_path, Top.via)
         /\ UNCHANGED <<pc, ti>>

WalkEnter ==
    /\ pc = "walk"
    /\ Top.phase = "enter"
    /\ IF conf.auto_discover_related /\ Top.table \notin discovered_auto
       THEN /\ relations_graph' =
                 ensure_auto_children(relations_graph, Top.table, cfg.skip_tables,
                                      cfg.skip_columns, LazyExcludeCascade(conf))
            /\ discovered_auto' = discovered_auto \cup {Top.table}
            /\ log' = Append(log, Ev("CATALOG", Top.table, Top.inv, 0, 0))
       ELSE UNCHANGED <<relations_graph, discovered_auto, log>>
    /\ AfterPhase("enter")
    /\ UNCHANGED <<cfg, clock, disk, abort, fetch_dates, summaries, db, tx, keys, delete_totals, archive_buffers,
                   run_delete_totals, total_deleted, csv, exit_code, batch, ninv,
                   db0, failed>>

\* the walker is at an edge whose child statement (COUNT or SELECT of the
\* child keys) holds an operator the database does not parse
ChildStatementFails ==
    /\ pc = "walk"
    /\ Top.phase = "edges"
    /\ Top.ei <= Len(relations_graph[Top.table])
    /\ LET f        == Top
           rel      == relations_graph[f.table][f.ei]
           edge_key == <<f.table, rel.name, rel.parent_columns, rel.child_columns>>
           direct   == ColSet(rel.parent_columns) \subseteq ColSet(f.key_columns)
           pkfc     == IF direct
                       THEN ProjectKeys(f.parent_keys, f.key_columns,
                                        rel.parent_columns)
                       ELSE fetch_needed_parent_keys(tx, f.table, f.key_columns,
                                                     f.parent_keys,
                                                     rel.parent_columns)
       IN  /\ ~OnCycle(edge_key, edge_path)
           /\ ~MissingParent(direct, pkfc)
           /\ HasUnknownOp(rel.conditions)

\* the child statement is sent and fails: in execute mode the except branch
\* rolls back and exits, in dry-run the exception leaves clean_table
WalkEdgeSqlError ==
    /\ ChildStatementFails
    /\ LET f      == Top
           rel    == relations_graph[f.table][f.ei]
           direct == ColSet(rel.parent_columns) \subseteq ColSet(f.key_columns)
           pkfc   == IF direct
                     THEN ProjectKeys(f.parent_keys, f.key_columns,
                                      rel.parent_columns)
                     ELSE fetch_needed_parent_keys(tx, f.table, f.key_columns,
                                                   f.parent_keys, rel.parent_columns)
           lookup == [k \in 1..LookupStatements(direct, f.parent_keys) |->
                        Ev("LOOKUP", f.table, f.inv, f.ei, Cardinality(pkfc))]
       IN  \E n \in RenderedLengths :
             log' = conn_close(log \o lookup
                               \o <<Ev("SQLERR", rel.name, f.inv, f.ei,
                                       Len(SqlErrorMessage(SqlText(n))))>>
                               \o (IF cfg.dry_run THEN << >>
                                   ELSE <<Ev("ROLLBACK", NoTable, 0, 0, 0)>>))
    /\ failed' = pc
    /\ tx' = db
    /\ archive_buffers' = << >>
    /\ exit_code' = 1
    /\ pc' = "exit"
    /\ UNCHANGED <<cfg, clock, disk, abort, fetch_dates, summaries, db, ti,
                   relations_graph, keys, stack, edge_path, discovered_auto,
                   delete_totals, run_delete_totals, total_deleted, csv, batch,
                   ninv, db0>>

WalkEdge ==
    /\ pc = "walk"
    /\ Top.phase = "edges"
    /\ Top.ei <= Len(relations_graph[Top.table])
    /\ ~ChildStatementFails
    /\ LET f        == Top
           rel      == relations_graph[f.table][f.ei]
           child    == rel.name
           pcols    == rel.parent_columns
           ccols    == rel.child_columns
           edge_key == <<f.table, child, pcols, ccols>>
           direct   == ColSet(pcols) \subseteq ColSet(f.key_columns)
           pkfc     == IF direct
                       THEN ProjectKeys(f.parent_keys, f.key_columns, pcols)
                       ELSE fetch_needed_parent_keys(tx, f.table, f.key_columns,
                                                     f.parent_keys, pcols)
           lookup   == [k \in 1..LookupStatements(direct, f.parent_keys) |->
                          Ev("LOOKUP", f.table, f.inv, f.ei, Cardinality(pkfc))]
           matches  == ChildMatches(tx, child, ccols, pkfc, rel.conditions)
           pk_cols  == IF get_primary_key_columns(child) # << >>
                       THEN get_primary_key_columns(child) ELSE ccols
           child_pks == {TupleOf(r, pk_cols) : r \in matches}
           skipEdge == [stack EXCEPT ![Len(stack)].ei = @ + 1]
       IN  IF OnCycle(edge_key, edge_path)
           THEN /\ stack' = skipEdge
                /\ log' = Append(log, Ev("CYCLE", child, f.inv, f.ei, 0))
                /\ UNCHANGED <<edge_path, delete_totals, ninv>>
           ELSE IF MissingParent(direct, pkfc)
           THEN /\ stack' = skipEdge
                /\ log' = log \o lookup
                /\ edge_path' = edge_path_remove(edge_path_add(edge_path, edge_key),
                                                 edge_key)
                /\ UNCHANGED <<delete_totals, ninv>>
           ELSE /\ delete_totals' =
                     IF cfg.dry_run
                     THEN DictAdd(delete_totals, child, Cardinality(matches))
                     ELSE delete_totals
                /\ log' = log \o lookup
                          \o (IF cfg.dry_run
                              THEN <<Ev("COUNT", child, f.inv, 0, Cardinality(matches))>>
                              ELSE << >>)
                          \o <<Ev("SELECT", child, f.inv,
                                  IF child_pks # {} THEN ninv + 1 ELSE 0,
                                  Cardinality(child_pks))>>
                /\ IF child_pks # {}
                   THEN /\ stack' = Append(stack, Frame(child, pk_cols, child_pks,
                                                        ninv + 1, f.inv, edge_key))
                        /\ edge_path' = edge_path_add(edge_path, edge_key)
                        /\ ninv' = ninv + 1
                   ELSE /\ stack' = skipEdge
                        /\ edge_path' = edge_path_remove(
                                            edge_path_add(edge_path, edge_key), edge_key)
                        /\ UNCHANGED ninv
    /\ UNCHANGED <<cfg, clock, disk, abort, fetch_dates, summaries, db, tx, pc, ti, relations_graph, keys, discovered_auto,
                   archive_buffers, run_delete_totals, total_deleted, csv, exit_code,
                   batch, db0, failed>>

\* every outgoing edge was handled: the for loop ends
WalkEdgesDone ==
    /\ pc = "walk"
    /\ Top.phase = "edges"
    /\ Top.ei > Len(relations_graph[Top.table])
    /\ AfterPhase("edges")
    /\ UNCHANGED <<cfg, clock, disk, abort, fetch_dates, summaries, db, tx, relations_graph, keys, discovered_auto, delete_totals,
                   archive_buffers, run_delete_totals, total_deleted, csv, log,
                   exit_code, batch, ninv, db0, failed>>

\* dry-run: COUNT(*) of the current rows, nothing is modified
WalkCount ==
    /\ pc = "walk"
    /\ Top.phase = "count"
    /\ LET cnt == Cardinality(RowsMatching(tx[Top.table], Top.key_columns,
                                           Top.parent_keys))
       IN  /\ delete_totals' = DictAdd(delete_totals, Top.table, cnt)
           /\ log' = Append(log, Ev("COUNT", Top.table, Top.inv, Top.caller, cnt))
    /\ AfterPhase("count")
    /\ UNCHANGED <<cfg, clock, disk, abort, fetch_dates, summaries, db, tx, relations_graph, keys, discovered_auto,
                   archive_buffers, run_delete_totals, total_deleted, csv, exit_code,
                   batch, ninv, db0, failed>>

\* execute with archive: SELECT * of the rows about to be deleted
WalkArchiveSelect ==
    /\ pc = "walk"
    /\ Top.phase = "archive"
    /\ LET rows == RowsMatching(tx[Top.table], Top.key_columns, Top.parent_keys)
       IN  /\ archive_buffers' =
                 IF rows # {} THEN BufferExtend(archive_buffers, Top.table, RowList(rows))
                 ELSE archive_buffers
           /\ log' = Append(log, Ev("ARCHSEL", Top.table, Top.inv, Top.caller,
                                    Cardinality(rows)))
    /\ AfterPhase("archive")
    /\ UNCHANGED <<cfg, clock, disk, abort, fetch_dates, summaries, db, tx, relations_graph, keys, discovered_auto, delete_totals,
                   run_delete_totals, total_deleted, csv, exit_code, batch, ninv,
                   db0, failed>>

\* variant: the walker commits each DELETE at once
WalkDelete_AutoCommit ==
    /\ pc = "walk"
    /\ Top.phase = "delete"
    /\ LET victims == RowsMatching(tx[Top.table], Top.key_columns, Top.parent_keys)
       IN  /\ tx' = DbDelete(tx, Top.table, victims)
           /\ db' = DbDelete(tx, Top.table, victims)
           /\ delete_totals' = DictAdd(delete_totals, Top.table, Cardinality(victims))
           /\ log' = log \o <<Ev("DELETE", Top.table, Top.inv, Top.caller,
                                 Cardinality(victims)),
                              Ev("COMMIT", NoTable, 0, 0, 0)>>
    /\ AfterPhase("delete")
    /\ UNCHANGED <<cfg, clock, disk, abort, fetch_dates, summaries, relations_graph,
                   keys, discovered_auto, archive_buffers, run_delete_totals,
                   total_deleted, csv, exit_code, batch, ninv, db0, failed>>

\* execute: delete_parent
WalkDelete ==
    /\ pc = "walk"
    /\ Top.phase = "delete"
    /\ LET victims == RowsMatching(tx[Top.table], Top.key_columns, Top.parent_keys)
       IN  /\ tx' = DbDelete(tx, Top.table, victims)
           /\ delete_totals' = DictAdd(delete_totals, Top.table, Cardinality(victims))
           /\ log' = Append(log, Ev("DELETE", Top.table, Top.inv, Top.caller,
                                    Cardinality(victims)))
    /\ AfterPhase("delete")
    /\ UNCHANGED <<cfg, clock, disk, abort, fetch_dates, summaries, db, relations_graph, keys, discovered_auto, archive_buffers,
                   run_delete_totals, total_deleted, csv, exit_code, batch, ninv,
                   db0, failed>>

(***************************************************************************)
(* The end of a dry-run batch: the totals are printed and the loop is left.*)
(***************************************************************************)
\* variant: the loop goes on to the next batch after a dry-run batch
BreakAfterDryRun_Continue(c) == FALSE

\* the break that ends the dry-run branch
BreakAfterDryRun(c) == TRUE

DryRunSummary ==
    /\ pc = "summary"
    /\ summaries' = IF delete_totals # EmptyDict
                    THEN Append(summaries, [pass |-> ti, table |-> table,
                                            totals |-> delete_totals])
                    ELSE summaries
    /\ IF BreakAfterDryRun(conf)
       THEN pc' = "main" /\ ti' = ti + 1
       ELSE pc' = "fetch" /\ UNCHANGED ti
    /\ UNCHANGED <<cfg, clock, disk, abort, fetch_dates, db, tx, relations_graph, keys, stack, edge_path,
                   discovered_auto, delete_totals, archive_buffers, run_delete_totals,
                   total_deleted, csv, log, exit_code, batch, ninv, db0, failed>>

(***************************************************************************)
(* The end of an execute-mode batch: COMMIT, then the archive flush and    *)
(* the totals.                                                             *)
(***************************************************************************)
Commit ==
    /\ pc = "commit"
    /\ db' = tx
    /\ log' = Append(log, Ev("COMMIT", NoTable, 0, 0, 0))
    /\ pc' = "flush"
    /\ UNCHANGED <<cfg, clock, disk, abort, fetch_dates, summaries, tx, ti, relations_graph, keys, stack, edge_path,
                   discovered_auto, delete_totals, archive_buffers, run_delete_totals,
                   total_deleted, csv, exit_code, batch, ninv, db0, failed>>

\* the CSV files of one flush: one per buffered table that has rows
FlushFiles(archive, archive_path, buffers) ==
    IF archive /\ archive_path
    THEN LET idx == {i \in 1..Len(buffers) : buffers[i].rows # << >>}
             out == PickSeq(buffers, idx, 1)
         IN  [i \in 1..Len(out) |->
                [table |-> out[i].table, rows |-> out[i].rows, batch |-> batch]]
    ELSE << >>

\* datetime.now() of a flush, to the second: the second of the latest write
\* or a later one
ArchiveSeconds(now, files) ==
    IF files = << >> THEN {now} ELSE {t \in {now, now + 1} : t <= MaxClock}

CsvEvents(files) ==
    [i \in 1..Len(files) |-> Ev("CSV", files[i].table, 0, 0, Len(files[i].rows))]

Flush ==
    /\ pc = "flush"
    /\ LET files == FlushFiles(conf.archive, conf.archive_path, archive_buffers)
       IN  /\ csv' = csv \o files
           /\ log' = log \o CsvEvents(files)
           /\ \E now \in ArchiveSeconds(clock, files) :
                 /\ clock' = now
                 /\ disk' = WriteFiles(disk, files, 1, now)
    /\ total_deleted' = total_deleted + Cardinality(keys)
    /\ run_delete_totals' = AccumulateRunTotals(run_delete_totals, delete_totals)
    /\ db0' = db
    /\ pc' = "fetch"
    /\ UNCHANGED <<cfg, abort, fetch_dates, summaries, db, tx, ti, relations_graph,
                   keys, stack, edge_path, discovered_auto, delete_totals,
                   archive_buffers, exit_code, batch, ninv, failed>>

\* variant: the failure is logged and the loop goes on with the next batch
ArchiveIoError_Continue ==
    /\ pc = "flush"
    /\ LET files == FlushFiles(conf.archive, conf.archive_path, archive_buffers)
       IN  \E k \in 1..Len(files) : \E now \in ArchiveSeconds(clock, files) :
             LET written == SubSeq(files, 1, k - 1)
             IN  /\ csv' = csv \o written
                 /\ clock' = now
                 /\ disk' = WriteFiles(disk, written, 1, now)
                 /\ log' = log \o CsvEvents(written)
    /\ abort' = "archive"
    /\ total_deleted' = total_deleted + Cardinality(keys)
    /\ run_delete_totals' = AccumulateRunTotals(run_delete_totals, delete_totals)
    /\ db0' = db
    /\ pc' = "fetch"
    /\ UNCHANGED <<cfg, fetch_dates, summaries, db, tx, ti, relations_graph, keys,
                   stack, edge_path, discovered_auto, delete_totals, archive_buffers,
                   exit_code, batch, ninv, failed>>

\* writing the k-th file of the flush fails (OSError): the files before it
\* are on disk, the except Exception branch ends the process; no transaction
\* is open, so conn.rollback() sends nothing
ArchiveIoError ==
    /\ pc = "flush"
    /\ LET files == FlushFiles(conf.archive, conf.archive_path, archive_buffers)
       IN  \E k \in 1..Len(files) : \E now \in ArchiveSeconds(clock, files) :
             LET written == SubSeq(files, 1, k - 1)
             IN  /\ csv' = csv \o written
                 /\ clock' = now
                 /\ disk' = WriteFiles(disk, written, 1, now)
                 /\ log' = conn_close(log \o CsvEvents(written))
    /\ abort' = "archive"
    /\ exit_code' = 1
    /\ pc' = "exit"
    /\ UNCHANGED <<cfg, fetch_dates, summaries, db, tx, ti, relations_graph, keys,
                   stack, edge_path, discovered_auto, delete_totals, archive_buffers,
                   run_delete_totals, total_deleted, batch, ninv, db0, failed>>

(***************************************************************************)
(* Database errors.  Any statement may raise psycopg2.Error (a timeout, a  *)
(* constraint violation, a lost connection).  Inside the try block of an   *)
(* execute-mode batch the handler rolls back and calls sys.exit(1);        *)
(* elsewhere the exception leaves clean_table and ends the process with a  *)
(* traceback.  cli.main closes the connection on the way out.              *)
(***************************************************************************)
\* variant: the except branch commits what the batch did so far
OnBatchError_Commit(committed, working) == working

\* the committed content after the except branch (conn.rollback())
OnBatchError(committed, working) == committed

\* variant: the buffers are flushed on the way out of a failed batch
FilesOnError_Flush(archive, archive_path, buffers) ==
    FlushFiles(archive, archive_path, buffers)

\* the CSV files the except branch writes
FilesOnError(archive, archive_path, buffers) == << >>

DbErrorInTry ==
    /\ pc \in {"walk", "commit"}
    /\ ~cfg.dry_run
    /\ failed' = pc
    /\ db' = OnBatchError(db, tx)
    /\ tx' = OnBatchError(db, tx)
    /\ LET files == FilesOnError(conf.archive, conf.archive_path, archive_buffers)
       IN  /\ csv' = csv \o files
           /\ log' = conn_close(log \o <<Ev("ROLLBACK", NoTable, 0, 0, 0)>>
                                     \o CsvEvents(files))
    /\ archive_buffers' = << >>
    /\ exit_code' = 1
    /\ pc' = "exit"
    /\ UNCHANGED <<cfg, clock, disk, abort, fetch_dates, summaries, ti, relations_graph, keys, stack, edge_path, discovered_auto,
                   delete_totals, run_delete_totals, total_deleted, batch, ninv, db0>>

\* the next step would issue a statement outside the try block
StatementOutsideTry ==
    \/ pc = "fetch"
    \/ pc = "batch" /\ conf.time_out # 0
    \/ pc = "walk" /\ cfg.dry_run
    \/ /\ pc = "main"
       /\ ti <= Len(cfg.tables)
       /\ conf.enable
       /\ ~TopLevelSkipped(conf, cfg.skip_tables, cfg.skip_columns)
       /\ conf.auto_discover_related
       /\ ~HasInvalidRelation(conf)

DbErrorUncaught ==
    /\ StatementOutsideTry
    /\ failed' = pc
    /\ tx' = db
    /\ log' = conn_close(log)
    /\ archive_buffers' = << >>
    /\ exit_code' = 1
    /\ pc' = "exit"
    /\ UNCHANGED <<cfg, clock, disk, abort, fetch_dates, summaries, db, ti, relations_graph, keys, stack, edge_path,
                   discovered_auto, delete_totals, run_delete_totals, total_deleted,
                   csv, batch, ninv, db0>>

\* cli.main after the last table: close the connection, return
Finish ==
    /\ pc = "main"
    /\ ti > Len(cfg.tables)
    /\ log' = conn_close(log)
    /\ exit_code' = 0
    /\ pc' = "exit"
    /\ UNCHANGED <<cfg, clock, disk, abort, fetch_dates, summaries, db, tx, ti, relations_graph, keys, stack, edge_path,
                   discovered_auto, delete_totals, archive_buffers, run_delete_totals,
                   total_deleted, csv, batch, ninv, db0, failed>>

Next ==
    \/ StartTable
    \/ ConfigInvalid
    \/ Fetch
    \/ FetchSqlError
    \/ BeginBatch
    \/ WalkEnter
    \/ WalkEdge
    \/ WalkEdgeSqlError
    \/ WalkEdgesDone
    \/ WalkCount
    \/ WalkArchiveSelect
    \/ WalkDelete
    \/ DryRunSummary
    \/ Commit
    \/ Flush
    \/ ArchiveIoError
    \/ DbErrorInTry
    \/ DbErrorUncaught
    \/ Finish

Spec == Init /\ [][Next]_vars

TypeOK ==
    /\ pc \in {"main", "fetch", "batch", "walk", "summary", "commit", "flush", "exit"}
    /\ exit_code \in {-1, 0, 1}
    /\ ti \in 1..(Len(cfg.tables) + 1)

(***************************************************************************)
(* Properties.                                                             *)
(***************************************************************************)
LogIdx(op) == {i \in 1..Len(log) : log[i].op = op}

\* no COMMIT or ROLLBACK among the events j..k
SameTransaction(j, k) == \A m \in j..k : log[m].op \notin {"COMMIT", "ROLLBACK"}

\* the SELECT events after which the walker recursed into the child
Followed == {i \in LogIdx("SELECT") : log[i].sub # 0}

\* C1: child before parent.  For every edge an invocation followed (its
\* SELECT found child keys and the walker recursed), the DELETE of that child
\* invocation is in the log before the DELETE of the invocation that followed
\* the edge, with no COMMIT or ROLLBACK between the two.
C1_ChildBeforeParent ==
    \A i \in Followed : \A k \in LogIdx("DELETE") :
        log[k].inv = log[i].inv =>
            \E j \in LogIdx("DELETE") :
                /\ j < k
                /\ log[j].inv = log[i].sub
                /\ log[j].tbl = log[i].tbl
                /\ SameTransaction(j, k)

\* a parent was deleted after an edge was followed to child rows
C1_Witness ==
    \E i \in Followed : \E k \in LogIdx("DELETE") :
        log[k].inv = log[i].inv /\ log[k].n > 0 /\ log[i].n > 0

\* C2: archive only after commit.  Every CSV file was written after the
\* COMMIT of the batch it belongs to, and its rows are gone from the committed
\* database; a batch that was rolled back has no CSV file and its buffers are
\* dropped.
C2_ArchiveAfterCommit ==
    /\ \A i \in LogIdx("CSV") :
          \E j \in LogIdx("COMMIT") : j < i /\ log[j].batch = log[i].batch
    /\ \A i \in 1..Len(csv) :
          /\ \E j \in LogIdx("COMMIT") : log[j].batch = csv[i].batch
          /\ \A r \in 1..Len(csv[i].rows) : csv[i].rows[r] \notin db[csv[i].table]
    /\ \A i \in LogIdx("ROLLBACK") :
          /\ \A j \in LogIdx("CSV") : log[j].batch # log[i].batch
          /\ \A j \in 1..Len(csv) : csv[j].batch # log[i].batch
          /\ archive_buffers = << >>

\* a file was written for a committed batch and a later batch, which had
\* buffered rows, was rolled back
C2_Witness ==
    /\ csv # << >>
    /\ \E i \in LogIdx("ROLLBACK") : \E j \in LogIdx("ARCHSEL") :
          j < i /\ log[j].batch = log[i].batch /\ log[j].n > 0

\* C3: batch atomicity on error.  When a statement of an execute-mode loop
\* iteration raised a database error, the committed database is what it was
\* when the iteration began, the connection holds no pending deletion, and no
\* CSV file exists for the failed batch.
C3_BatchAtomicity ==
    (pc = "exit" /\ failed # "" /\ ~cfg.dry_run) =>
        /\ db = db0
        /\ tx = db0
        /\ failed \in {"batch", "walk", "commit"} =>
              /\ \A i \in LogIdx("CSV") : log[i].batch # batch
              /\ \A i \in 1..Len(csv) : csv[i].batch # batch
        /\ failed \in {"walk", "commit"} => LogIdx("ROLLBACK") # {}

\* a batch failed after it had deleted rows
C3_Witness ==
    /\ pc = "exit"
    /\ failed = "walk"
    /\ \E i \in LogIdx("DELETE") : log[i].batch = batch /\ log[i].n > 0

\* C4: dry-run never modifies.  In a dry run no DELETE and no COMMIT is
\* issued, no CSV file is written, and every table holds the rows it held
\* before the run.
C4_DryRunNeverModifies ==
    cfg.dry_run =>
        /\ LogIdx("DELETE") = {}
        /\ LogIdx("COMMIT") = {}
        /\ LogIdx("CSV") = {}
        /\ csv = << >>
        /\ db = InitialDb
        /\ tx = InitialDb

\* a dry run went through every table and counted rows of a child and a parent
C4_Witness ==
    /\ cfg.dry_run
    /\ pc = "exit"
    /\ exit_code = 0
    /\ \E i \in LogIdx("COUNT") : log[i].n > 0 /\ log[i].sub # 0

\* the edge keys the walker is inside of, from the top-level call downwards
Descent == [i \in 1..(Len(stack) - 1) |-> stack[i + 1].via]

\* an upper bound on the number of edges of any table in any graph
EdgeBound == Len(FKCatalog) + Len(ManualCandidates)

PhaseRank(phase) ==
    CASE phase = "enter" -> 0
      [] phase = "edges" -> 1
      [] phase \in {"count", "archive"} -> 2
      [] phase = "delete" -> 3

\* the walker's position: per frame, the part of the body and the edge index
Position(st) ==
    [i \in 1..Len(st) |-> PhaseRank(st[i].phase) * (EdgeBound + 2) + st[i].ei]

\* lexicographic order; a proper prefix is smaller
LexLess(a, b) ==
    \E k \in 1..Len(b) :
        /\ k <= Len(a) + 1
        /\ \A m \in 1..(k - 1) : a[m] = b[m]
        /\ (k = Len(a) + 1 \/ a[k] < b[k])

\* C6: cycle safety.  No edge key occurs twice on the walker's current
\* descent (edge_path is exactly the set of the descent's edge keys), so the
\* descent is never deeper than the number of edges; every step inside a walk
\* moves the walker's position strictly forward in the lexicographic order of
\* (part, edge index) per frame.  The positions of that depth are finitely
\* many, hence every walk ends, whatever the graph and the rows.
C6_CycleSafety ==
    /\ [](/\ \A i \in 1..Len(Descent) : \A j \in 1..Len(Descent) :
                i # j => Descent[i] # Descent[j]
          /\ (pc = "walk" =>
                /\ stack # << >>
                /\ edge_path = {Descent[i] : i \in 1..Len(Descent)}
                /\ Len(stack) <= Cardinality(QTables) * EdgeBound + 1
                /\ \A i \in 1..Len(stack) :
                      stack[i].ei <= Len(relations_graph[stack[i].table]) + 1
                /\ \A t \in QTables : Len(relations_graph[t]) <= EdgeBound))
    /\ [][(pc = "walk" /\ pc' = "walk") =>
             LexLess(Position(stack), Position(stack'))]_vars

\* the walker met an edge that is on its descent (a self-loop or a mutual
\* cycle) and skipped it
C6_Witness ==
    /\ pc = "walk"
    /\ Top.phase = "edges"
    /\ Top.ei <= Len(relations_graph[Top.table])
    /\ LET rel == relations_graph[Top.table][Top.ei]
       IN  <<Top.table, rel.name, rel.parent_columns, rel.child_columns>> \in edge_path

\* the parent/child configuration of orders and order_items: one manual
\* relation, no discovery, no skip rule, both expired orders in one batch,
\* the orders table enabled
ScenarioB ==
    /\ cfg.tables[1].enable
    /\ cfg.tables[1].related = <<ManualCandidates[1]>>
    /\ ~cfg.tables[1].auto_discover_related
    /\ cfg.skip_tables = {} /\ cfg.skip_columns = {}
    /\ ~cfg.tables[1].disable_cutoff
    /\ cfg.tables[1].conditions = << >>
    /\ cfg.tables[1].batch_size = 2

\* C5: dry-run totals.  A dry run over the orders/order_items data reports
\* order_items: 3 and orders: 2, the numbers of rows an execute run deletes;
\* in particular no total exceeds the number of rows its table holds.
C5_DryRunTotals ==
    (cfg.dry_run /\ ScenarioB /\ pc = "main" /\ ti = 2) =>
        /\ delete_totals = (Items :> 3 @@ Orders :> 2)
        /\ \A t \in DOMAIN delete_totals : delete_totals[t] <= Cardinality(tx[t])

\* the statements that read or delete rows of a table
RowStatements == {"FETCH", "LOOKUP", "COUNT", "SELECT", "ARCHSEL", "DELETE"}

\* the short or the qualified name of the table is in skip_tables
NameSkipped(t) == t \in cfg.skip_tables \/ ShortName(t) \in cfg.skip_tables

\* C7: skip semantics.  No statement is issued against a table whose short
\* or qualified name is in skip_tables, such a table is no key of the delete
\* totals, and no edge of the graph has a child column in skip_columns.
C7_SkipSemantics ==
    /\ \A i \in 1..Len(log) : log[i].op \in RowStatements => ~NameSkipped(log[i].tbl)
    /\ \A t \in (DOMAIN delete_totals) \cup (DOMAIN run_delete_totals) : ~NameSkipped(t)
    /\ \A t \in QTables : \A i \in 1..Len(relations_graph[t]) :
          ColSet(relations_graph[t][i].child_columns) \cap cfg.skip_columns = {}

\* the foreign key of the catalog an edge corresponds to has ON DELETE CASCADE
DbSideCascade(e) ==
    \E i \in 1..Len(FKCatalog) :
        /\ FKCatalog[i].parent = e.parent_table
        /\ FKCatalog[i].child = e.name
        /\ FKCatalog[i].parent_columns = e.parent_columns
        /\ FKCatalog[i].child_columns = e.child_columns
        /\ FKCatalog[i].action = "c"

GraphEdges ==
    UNION {{relations_graph[t][i] : i \in 1..Len(relations_graph[t])} : t \in QTables}

InPass == pc \in {"fetch", "batch", "walk", "commit", "flush"}

\* C8 as stated: with exclude_cascade_fk the graph of a table-clean pass has
\* no edge whose database-side foreign key has ON DELETE CASCADE.
C8_NoCascadeEdge ==
    (InPass /\ conf.exclude_cascade_fk) =>
        \A e \in GraphEdges : ~DbSideCascade(e)

\* C8 (amended): with exclude_cascade_fk, at every point of a table-clean
\* pass, no auto-discovered edge of the graph has ON DELETE CASCADE; an edge
\* with a CASCADE foreign key is in the graph only as a configured relation.
C8_NoAutoCascadeEdge ==
    (InPass /\ conf.exclude_cascade_fk) =>
        \A e \in GraphEdges :
            /\ ~e.manual => e.delete_action # "c"
            /\ DbSideCascade(e) => e.manual

\* discovery ran for the cleaned table and lazily for a child, both of which
\* are referenced by CASCADE foreign keys
C8_Witness ==
    /\ pc = "walk"
    /\ conf.exclude_cascade_fk
    /\ conf.auto_discover_related
    /\ {Orders, Items} \subseteq discovered_auto
    /\ \E e \in GraphEdges : ~e.manual

\* C9: a database error in an execute-mode batch is fatal.  After an error
\* in a statement of a batch (fetch, timeout, walker, commit) the last things
\* the process did are the ROLLBACK and closing the connection, and the exit
\* status is not 0; a run without an error exits with 0.
C9_ErrorIsFatal ==
    (pc = "exit" /\ ~cfg.dry_run) =>
        /\ failed \in {"fetch", "batch", "walk", "commit"} =>
              /\ exit_code # 0
              /\ Len(log) >= 2
              /\ log[Len(log) - 1].op = "ROLLBACK"
              /\ log[Len(log)].op = "CLOSE"
        /\ failed = "" => exit_code = 0

\* C10: batch boundedness.  Every possible result of fetch_batch has at most
\* batch_size rows, and the keys of the batch, which are the walker's
\* top-level parent_keys, are never more than batch_size.
C10_BatchBounded ==
    /\ pc = "fetch" =>
          \A S \in fetch_batch(tx[table], conf.date_column, cutoff_date(conf),
                               conf.batch_size, conf.conditions) :
             Cardinality(S) <= conf.batch_size
    /\ pc \in {"batch", "walk", "commit", "flush"} =>
          /\ Cardinality(keys) <= conf.batch_size
          /\ (stack # << >> => stack[1].parent_keys = keys)

\* the LIMIT cut the result: more rows were eligible than the batch holds
C10_Witness ==
    /\ pc = "walk"
    /\ Cardinality(keys) = conf.batch_size
    /\ Cardinality(Eligible(db0[table], conf.date_column, cutoff_date(conf),
                            conf.conditions)) > conf.batch_size

NonDecreasing(seq) == \A i \in 1..Len(seq) : \A j \in 1..Len(seq) : i < j => seq[i] <= seq[j]

\* C11: ordering under cutoff.  With a cutoff, the rows of every batch come
\* back in non-decreasing date order, and no row of a batch is older than a
\* row of the batch fetched before it for the same table.
C11_OrderingUnderCutoff ==
    (InPass /\ ~conf.disable_cutoff) =>
        /\ \A b \in 1..Len(fetch_dates) : NonDecreasing(fetch_dates[b])
        /\ \A b \in 1..(Len(fetch_dates) - 1) :
              \A i \in 1..Len(fetch_dates[b]) : \A j \in 1..Len(fetch_dates[b + 1]) :
                 fetch_dates[b][i] <= fetch_dates[b + 1][j]

\* a second batch was fetched after the first was committed, with newer rows
C11_Witness ==
    /\ InPass
    /\ ~conf.disable_cutoff
    /\ ~cfg.dry_run
    /\ Len(fetch_dates) >= 2
    /\ fetch_dates[1][1] < fetch_dates[2][1]

\* C12: idempotence of dry-run.  When the same table configuration is run
\* twice in dry-run mode (the database is unchanged in between), the two
\* summaries hold the same delete_totals.
C12_DryRunIdempotent ==
    (cfg.dry_run /\ cfg.tables[1] = cfg.tables[2]) =>
        \A i \in 1..Len(summaries) : \A j \in 1..Len(summaries) :
            summaries[i].totals = summaries[j].totals

\* batch b was committed and its archive step is over
Flushed(b) ==
    /\ \E j \in LogIdx("COMMIT") : log[j].batch = b
    /\ (pc # "flush" \/ b < batch)

\* C13: archive-iff-commit, the "if" direction.  When a batch of a table with
\* archive enabled has committed (and no CSV write failed), there is a CSV
\* file of that batch for every table the batch deleted rows from.
C13_ArchiveIfCommit ==
    abort # "archive" =>
        \A i \in LogIdx("DELETE") :
            (log[i].n > 0 /\ cfg.tables[log[i].pass].archive /\ Flushed(log[i].batch)) =>
                \E j \in 1..Len(csv) :
                    csv[j].batch = log[i].batch /\ csv[j].table = log[i].tbl

\* the events of pass p (the p-th entry of cfg.tables)
PassIdx(p) == {i \in 1..Len(log) : log[i].pass = p}

\* the top-level walker invocations of pass p: the invocations that issued a
\* statement and were not entered through an edge
RootInvocations(p) ==
    {log[i].inv : i \in {k \in PassIdx(p) : log[k].inv # 0}}
        \ {log[i].sub : i \in LogIdx("SELECT")}

\* C14: dry-run is a single-batch preview.  In a dry run every table has at
\* most one fetch_batch call and at most one top-level walker invocation, and
\* a table whose loop was entered and left has exactly one fetch_batch call,
\* however many eligible rows remain.
C14_DryRunSingleBatch ==
    cfg.dry_run =>
        \A p \in 1..Len(cfg.tables) :
            /\ Cardinality(PassIdx(p) \cap LogIdx("FETCH")) <= 1
            /\ Cardinality(RootInvocations(p)) <= 1
            /\ (p < ti /\ Processed(cfg.tables[p])) =>
                  Cardinality(PassIdx(p) \cap LogIdx("FETCH")) = 1

\* the dry run left the first table's loop after one batch although more
\* rows than that batch held are eligible
C14_Witness ==
    /\ cfg.dry_run
    /\ ti = 2
    /\ Len(summaries) = 1
    /\ cfg.tables[1].batch_size >= 1
    /\ Cardinality(RootInvocations(1)) = 1
    /\ Cardinality(Eligible(db[qualify_table(cfg.tables[1].name)],
                            cfg.tables[1].date_column, cutoff_date(cfg.tables[1]),
                            cfg.tables[1].conditions)) > cfg.tables[1].batch_size

\* the edge of the graph with the given edge key
EdgeOf(via) ==
    CHOOSE e \in GraphEdges :
        /\ e.parent_table = via[1] /\ e.name = via[2]
        /\ e.parent_columns = via[3] /\ e.child_columns = via[4]

\* the rows the DELETE of the walker's current invocation may remove: for the
\* top-level call the rows whose key was fetched, for a child the rows whose
\* child_columns match a row of the calling invocation and that satisfy the
\* edge's conditions (rows as they were when the batch began)
MayDelete ==
    IF Len(stack) = 1
    THEN RowsMatching(db0[Top.table], conf.key_columns, keys)
    ELSE LET caller == stack[Len(stack) - 1]
             e      == EdgeOf(Top.via)
             doomed == RowsMatching(db0[caller.table], caller.key_columns,
                                    caller.parent_keys)
         IN  {r \in db0[Top.table] :
                /\ ~HasNull(TupleOf(r, e.child_columns))
                /\ \E q \in doomed :
                      TupleOf(q, e.parent_columns) = TupleOf(r, e.child_columns)
                /\ EvalConditions(r, e.conditions)}

\* tables no ON DELETE CASCADE foreign key removes rows from
NoCascadeInto(t) ==
    \A i \in 1..Len(FKCatalog) : FKCatalog[i].child = t => FKCatalog[i].action # "c"

\* C15: deletion frame.  In execute mode the first batch of the orders and
\* order_items configuration removes orders 1 and 2 and order_items 1, 2, 3,
\* leaves order 3 and order_item 4, and reports order_items: 3, orders: 2;
\* in every batch the totals are the numbers of rows removed per table, and
\* every DELETE of the walker removes only rows whose key was fetched
\* (top-level table) or that match a doomed parent row through the edge's
\* columns and satisfy the edge's conditions (child).
C15_DeletionFrame ==
    /\ []((pc = "flush" /\ ScenarioB /\ batch = 1) =>
            /\ db[Orders] = {r \in InitialDb[Orders] : r.id = 3}
            /\ db[Items] = {r \in InitialDb[Items] : r.id = 4}
            /\ delete_totals = (Items :> 3 @@ Orders :> 2))
    /\ [](pc = "flush" =>
            \A t \in DOMAIN delete_totals :
                NoCascadeInto(t) => delete_totals[t] = Cardinality(db0[t] \ db[t]))
    /\ [][(pc = "walk" /\ pc' # "exit" /\ ~cfg.dry_run /\ Top.phase = "delete")
             => (tx[Top.table] \ tx'[Top.table]) \subseteq MayDelete]_vars

\* the step in which a CSV write of the flush fails
ArchiveWriteFails == pc = "flush" /\ abort = "" /\ abort' = "archive"

C17_ConfigInvalidBeforeDbWork ==
    abort = "config" =>
        \A i \in 1..Len(log) : log[i].op \notin RowStatements \cup {"COMMIT"}

\* the rows of the table of the pass that the fetch predicate selects
Fetchable(content) ==
    Eligible(content[table], conf.date_column, cutoff_date(conf), conf.conditions)

C19_OneFilePerBatch ==
    /\ \A i \in 1..Len(csv) :
          \E f \in disk : f.name.table = csv[i].table /\ f.rows = csv[i].rows
    /\ Cardinality(disk) = Len(csv)

\* C20: sequential orchestration.  The tables are processed in the order
\* of config.tables, one at a time: the statements in the log are grouped by
\* table in that order, and the run moves to the next table only from a
\* finished loop (table skipped, empty fetch, or dry-run summary) with no
\* walker invocation and no transaction open.  The connection is closed
\* exactly once, as the last thing, on every exit path: normal completion,
\* termination on a DB error, and a propagating exception.
C20_SequentialOrchestration ==
    /\ [](\A i \in 1..(Len(log) - 1) : log[i].pass <= log[i + 1].pass)
    /\ [](\A i \in 1..Len(log) :
             log[i].op \in RowStatements =>
                 /\ log[i].pass \in 1..Len(cfg.tables)
                 /\ Processed(cfg.tables[log[i].pass]))
    /\ [][ti' # ti =>
             /\ ti' = ti + 1
             /\ pc \in {"main", "fetch", "summary"} /\ pc' = "main"
             /\ stack = << >> /\ tx = db /\ tx' = tx]_vars
    /\ [](pc = "exit" =>
             /\ Cardinality(LogIdx("CLOSE")) = 1
             /\ log[Len(log)].op = "CLOSE"
             /\ exit_code \in {0, 1}
             /\ (exit_code = 0 <=> (ti > Len(cfg.tables) /\ failed = "" /\ abort = "")))
    /\ [](pc # "exit" => LogIdx("CLOSE") = {})

\* a run that ended on a DB error in the second table after statements of the
\* first
C20_Witness ==
    /\ pc = "exit" /\ failed # "" /\ ti = 2
    /\ PassIdx(1) \cap LogIdx("DELETE") # {}
    /\ PassIdx(2) \cap LogIdx("FETCH") # {}
    /\ log[Len(log)].op = "CLOSE"

\* the table is disabled, or its configured name or its date_column is skipped
LeftAlone(c) ==
    \/ ~c.enable
    \/ c.name \in cfg.skip_tables
    \/ c.date_column \in cfg.skip_columns

UpToBatch(i, b) == IF log[i].op = "FETCH" THEN log[i].batch < b ELSE log[i].batch <= b

AfterBatch(i, b) == IF log[i].op = "FETCH" THEN log[i].batch >= b ELSE log[i].batch > b

\* C22: one transaction per batch.  In execute mode the statements of a
\* batch (its fetch, the timeout setting, the walker's lookups, selects,
\* archive selects and deletes) are issued with no COMMIT or ROLLBACK between
\* them: every COMMIT or ROLLBACK has the statements of its batch and of the
\* earlier batches before it and those of the later batches after it.  No
\* COMMIT or ROLLBACK is issued and nothing is committed while a walker
\* invocation is active; a COMMIT is issued only by the table cleaner after
\* the walker returned, once per batch.
C22_OneTransactionPerBatch ==
    /\ [](\A m \in LogIdx("COMMIT") \cup LogIdx("ROLLBACK") :
             /\ \A i \in 1..Len(log) :
                   log[i].op \in RowStatements \cup {"SET"} =>
                       IF i < m THEN UpToBatch(i, log[m].batch)
                       ELSE AfterBatch(i, log[m].batch)
             /\ \A c \in LogIdx("COMMIT") : log[c].batch = log[m].batch => c = m
             /\ \E i \in LogIdx("FETCH") :
                   i < m /\ log[i].batch = log[m].batch - 1 /\ log[i].n > 0)
    /\ [](pc = "flush" =>
            Cardinality({c \in LogIdx("COMMIT") : log[c].batch = batch}) = 1)
    /\ []((~cfg.dry_run /\ pc \in {"main", "fetch"}) =>
            Cardinality(LogIdx("COMMIT")) = batch)
    /\ [][(pc = "walk" /\ pc' = "walk") =>
            /\ LogIdx("COMMIT")' = LogIdx("COMMIT")
            /\ LogIdx("ROLLBACK")' = LogIdx("ROLLBACK")
            /\ db' = db]_vars
    /\ [][LogIdx("ROLLBACK")' # LogIdx("ROLLBACK") =>
            (pc \in {"walk", "commit"} /\ pc' = "exit")]_vars
    /\ [][LogIdx("COMMIT")' # LogIdx("COMMIT") =>
            (pc = "commit" /\ stack = << >> /\ db' = tx)]_vars

\* two batches were committed, each after a walk that deleted child rows
C22_Witness ==
    /\ ~cfg.dry_run /\ pc = "flush" /\ batch = 2
    /\ Cardinality(LogIdx("COMMIT")) = 2
    /\ \A b \in 1..2 : \E i \in LogIdx("DELETE") :
          log[i].batch = b /\ log[i].sub # 0 /\ log[i].n > 0
    /\ LogIdx("SET") # {}

\* C23: an error raised inside the walker, in a dry run as in execute mode,
\* reaches the table cleaner, which issues ROLLBACK before the process ends;
\* the failed statement is not issued again (the ROLLBACK and the closing of
\* the connection are all that follows).
C23_WalkerErrorRollsBack ==
    /\ [](pc = "exit" /\ failed = "walk" =>
            /\ exit_code = 1
            /\ Len(log) >= 2
            /\ log[Len(log) - 1].op = "ROLLBACK"
            /\ log[Len(log) - 1].batch = batch
            /\ log[Len(log)].op = "CLOSE")
    /\ [][(pc = "walk" /\ failed' = "walk") =>
            LogIdx("DELETE")' = LogIdx("DELETE") /\ LogIdx("SELECT")' = LogIdx("SELECT")
            /\ LogIdx("COUNT")' = LogIdx("COUNT")]_vars

\* the skip rules drop the foreign key of the catalog
FkSkipped(k) ==
    \/ NameSkipped(k.child)
    \/ ColSet(k.child_columns) \cap cfg.skip_columns # {}

\* C24: the CASCADE filter follows exclude_cascade_fk at every level.  With
\* exclude_cascade_fk the graph has no auto-discovered CASCADE edge; without
\* it, and with auto-discovery on, every foreign key that is not skipped and
\* references a table the walker has reached (the cleaned table and every
\* lazily extended one) is an edge of the graph, the ON DELETE CASCADE ones
\* included.
C24_CascadeFilterFollowsSetting ==
    /\ (InPass /\ conf.exclude_cascade_fk) =>
          \A e \in GraphEdges : ~e.manual => e.delete_action # "c"
    /\ (InPass /\ conf.auto_discover_related /\ ~conf.exclude_cascade_fk) =>
          \A t \in discovered_auto : \A i \in 1..Len(FKCatalog) :
              (FKCatalog[i].parent = t /\ ~FkSkipped(FKCatalog[i])) =>
                  \E e \in GraphEdges :
                      /\ e.parent_table = t
                      /\ e.name = FKCatalog[i].child
                      /\ e.child_columns = FKCatalog[i].child_columns
                      /\ e.parent_columns = FKCatalog[i].parent_columns

\* the configured relations of the pass, normalised
ConfiguredRelations == normalize_manual_relations(conf.related, table)

\* C25: graph deduplication.  At every point of a table-clean pass, after
\* the initial union and after every lazy extension of every batch, each
\* list of the graph holds edges of its own parent table with pairwise
\* distinct keys (parent_table, child_table, child_columns, parent_columns);
\* an edge whose key is the key of a configured relation is the configured
\* one, with its conditions, also when the catalog has a foreign key of the
\* same key.
C25_GraphDeduplicated ==
    InPass =>
        /\ \A t \in QTables : \A i \in 1..Len(relations_graph[t]) :
              /\ relations_graph[t][i].parent_table = t
              /\ \A j \in 1..Len(relations_graph[t]) :
                    RelKey(relations_graph[t][i]) = RelKey(relations_graph[t][j]) => i = j
        /\ \A e \in GraphEdges : \A i \in 1..Len(ConfiguredRelations) :
              RelKey(ConfiguredRelations[i]) = RelKey(e) =>
                  /\ e.manual
                  /\ e.conditions = ConfiguredRelations[i].conditions

\* second batch of a pass: the graph was extended lazily several times and
\* holds a configured edge with conditions whose key is also a foreign key
\* that auto-discovery returns
C25_Witness ==
    /\ pc = "walk" /\ batch >= 2
    /\ conf.auto_discover_related /\ ~conf.exclude_cascade_fk
    /\ {Orders, Items} \subseteq discovered_auto
    /\ \E e \in GraphEdges :
          e.manual /\ e.conditions # << >> /\ DbSideCascade(e)
    /\ \E e \in GraphEdges : ~e.manual

\* the edge keys through which the invocations on the stack were entered
StackEdges == {stack[i].via : i \in 2..Len(stack)}

\* C26: edge-path discipline.  During a walk edge_path is the set of the
\* edge keys on the walker's stack, each there once; a descent adds the key
\* of the edge it follows, which was not in edge_path, and the return from
\* the child removes it; an edge skipped for a cycle or for missing parent
\* values, or one that selects no child row, leaves edge_path as it was; when
\* the top-level invocation has returned edge_path is empty.
C26_EdgePathDiscipline ==
    /\ [](pc = "walk" =>
            /\ edge_path = StackEdges
            /\ Cardinality(edge_path) = Len(stack) - 1)
    /\ [](pc \in {"commit", "flush", "summary"} => (edge_path = {} /\ stack = << >>))
    /\ [][(pc = "walk" /\ pc' = "walk") =>
            /\ Len(stack') = Len(stack) + 1 =>
                  (Top'.via \notin edge_path /\ edge_path' = edge_path \cup {Top'.via})
            /\ Len(stack') = Len(stack) - 1 =>
                  (Top.via \in edge_path /\ edge_path' = edge_path \ {Top.via})
            /\ Len(stack') = Len(stack) => edge_path' = edge_path]_vars

\* the top-level invocation returned from a walk that went two levels deep
\* and skipped an edge for missing parent values
C26_Witness ==
    /\ pc \in {"commit", "summary"}
    /\ edge_path = {}
    /\ \E i \in LogIdx("SELECT") : \E j \in LogIdx("SELECT") :
          /\ log[i].batch = batch /\ log[j].batch = batch
          /\ log[i].sub # 0 /\ log[j].inv = log[i].sub /\ log[j].sub # 0
    /\ \E i \in LogIdx("LOOKUP") : log[i].batch = batch /\ log[i].n = 0

\* C27 (as stated): for an edge whose parent columns are not all key columns
\* of the current invocation the walker issues one lookup per batch,
\* whatever the shape of the graph: no two lookups of a batch are for the
\* same edge (the edge is the table and the position in its list of edges).
C27_OneLookupPerEdgePerBatch ==
    \A i \in LogIdx("LOOKUP") : \A j \in LogIdx("LOOKUP") :
        (log[i].batch = log[j].batch /\ log[i].tbl = log[j].tbl
         /\ log[i].sub = log[j].sub) => i = j

\* C27 (amended): the walker issues one lookup per edge per invocation, not
\* per parent row: handling an edge adds exactly one lookup to the log when
\* the edge's parent columns are not all key columns of the invocation and
\* the edge is not skipped for a cycle, and none otherwise, however many
\* parent keys the invocation holds; no invocation looks the same edge up
\* twice.  A table reached through several paths is looked up once per
\* invocation.
C27_OneLookupPerEdgePerInvocation ==
    /\ [](\A i \in LogIdx("LOOKUP") : \A j \in LogIdx("LOOKUP") :
             (log[i].inv = log[j].inv /\ log[i].sub = log[j].sub) => i = j)
    /\ [][(pc = "walk" /\ pc' = "walk" /\ Top.phase = "edges"
           /\ Top.ei <= Len(relations_graph[Top.table])) =>
             LET rel == relations_graph[Top.table][Top.ei]
                 needed ==
                    /\ ~(ColSet(rel.parent_columns) \subseteq ColSet(Top.key_columns))
                    /\ <<Top.table, rel.name, rel.parent_columns, rel.child_columns>>
                          \notin edge_path
             IN  Cardinality(LogIdx("LOOKUP")') =
                    Cardinality(LogIdx("LOOKUP")) + (IF needed THEN 1 ELSE 0)]_vars

\* two invocations of one batch looked the same edge up, one of them for
\* two parent keys
C27_Witness ==
    \E i \in LogIdx("LOOKUP") : \E j \in LogIdx("LOOKUP") :
        /\ i < j /\ log[i].batch = log[j].batch /\ log[i].tbl = log[j].tbl
        /\ log[i].sub = log[j].sub /\ log[i].inv # log[j].inv
        /\ log[i].batch = batch /\ Cardinality(keys) = 2

\* the edge the current invocation handles next
CurrentEdge == relations_graph[Top.table][Top.ei]

\* the walker is about to handle an edge that is not skipped for a cycle and
\* whose parent columns are all key columns of the invocation
FastPathStep ==
    /\ pc = "walk" /\ pc' = "walk"
    /\ Top.phase = "edges"
    /\ Top.ei <= Len(relations_graph[Top.table])
    /\ ColSet(CurrentEdge.parent_columns) \subseteq ColSet(Top.key_columns)
    /\ <<Top.table, CurrentEdge.name, CurrentEdge.parent_columns,
         CurrentEdge.child_columns>> \notin edge_path

\* the child rows an edge pairs with the invocation's parent rows: the rows
\* of the child whose child_columns, column by column, carry the values of
\* the edge's parent_columns in one of the rows the parent keys stand for
PairedChildRows ==
    LET parents == RowsMatching(db0[Top.table], Top.key_columns, Top.parent_keys)
    IN  {r \in tx[CurrentEdge.name] :
            /\ ~HasNull(TupleOf(r, CurrentEdge.child_columns))
            /\ EvalConditions(r, CurrentEdge.conditions)
            /\ \E q \in parents :
                  TupleOf(q, CurrentEdge.parent_columns)
                     = TupleOf(r, CurrentEdge.child_columns)}

\* C28: key projection fast path.  When every parent column of an edge is a
\* key column of the current invocation, the walker issues no lookup for
\* the edge and the child rows it selects are those paired with the parent
\* keys column by column (the value of each parent column is taken from its
\* position in the key, in the order of parent_columns): with a composite
\* key the pairing with child_columns is kept.
C28_KeyProjectionFastPath ==
    [][FastPathStep =>
          /\ LogIdx("LOOKUP")' = LogIdx("LOOKUP")
          /\ IF PairedChildRows = {}
             THEN Len(stack') = Len(stack)
             ELSE /\ Len(stack') = Len(stack) + 1
                  /\ Top'.table = CurrentEdge.name
                  /\ Top'.parent_keys =
                        {TupleOf(r, Top'.key_columns) : r \in PairedChildRows}]_vars

\* a batch of two parents with a composite key: the relation on two columns
\* selected the two paired child rows without a lookup
C28_Witness ==
    /\ pc = "walk" /\ Len(stack) = 2
    /\ stack[1].key_columns = CompositeKey
    /\ Cardinality(stack[1].parent_keys) = 2
    /\ stack[2].via[3] = CompositeManual.parent_columns
    /\ Cardinality(stack[2].parent_keys) = 2
    /\ \A i \in LogIdx("LOOKUP") : log[i].batch # batch

\* the walker handles an edge that needs a lookup, and no row of the current
\* table carries one of the invocation's parent keys any more
EmptyLookupStep ==
    /\ pc = "walk" /\ pc' = "walk"
    /\ Top.phase = "edges"
    /\ Top.ei <= Len(relations_graph[Top.table])
    /\ ~(ColSet(CurrentEdge.parent_columns) \subseteq ColSet(Top.key_columns))
    /\ <<Top.table, CurrentEdge.name, CurrentEdge.parent_columns,
         CurrentEdge.child_columns>> \notin edge_path
    /\ RowsMatching(tx[Top.table], Top.key_columns, Top.parent_keys) = {}

\* C29: missing parent values are recovered locally.  When the lookup of an
\* edge returns no rows the walker skips that edge only: the lookup is the
\* one statement of the step (no COUNT, SELECT or DELETE on the child), the
\* invocation goes on with its next edge, nothing is counted or modified and
\* no error is raised; the invocation still acts on its own table (its COUNT
\* or DELETE follows before the batch ends).
C29_MissingParentSkipsEdge ==
    /\ [][EmptyLookupStep =>
            /\ Len(log') = Len(log) + 1
            /\ log'[Len(log')].op = "LOOKUP" /\ log'[Len(log')].n = 0
            /\ SubSeq(log', 1, Len(log)) = log
            /\ Len(stack') = Len(stack)
            /\ Top'.phase = "edges" /\ Top'.ei = Top.ei + 1
            /\ delete_totals' = delete_totals /\ tx' = tx /\ edge_path' = edge_path
            /\ failed' = failed /\ exit_code' = exit_code]_vars
    /\ [](pc \in {"commit", "summary"} =>
            \A i \in LogIdx("LOOKUP") :
                (log[i].batch = batch /\ log[i].n = 0) =>
                    \E j \in LogIdx("DELETE") \cup LogIdx("COUNT") :
                        j > i /\ log[j].inv = log[i].inv /\ log[j].tbl = log[i].tbl)

\* a walk finished in which an edge was skipped for an empty lookup and a
\* later edge of the same invocation was handled
C29_Witness ==
    /\ pc \in {"commit", "summary"}
    /\ \E i \in LogIdx("LOOKUP") : \E j \in LogIdx("SELECT") :
          /\ log[i].batch = batch /\ log[i].n = 0
          /\ j > i /\ log[j].inv = log[i].inv

\* tables A (orders) and B (order_items): B references A and itself; the two
\* relations are configured, nothing is discovered, execute mode
ScenarioD ==
    /\ cfg.tables[1].related = <<ManualCandidates[1], ManualCandidates[2]>>
    /\ ~cfg.tables[1].auto_discover_related
    /\ cfg.tables[1].key_columns = <<"id">>
    /\ ~cfg.dry_run
    /\ ti = 1

\* the B rows of the batch's A rows, and the B rows that reference those
MatchingB == {r \in db0[Items] : <<r.order_id>> \in keys}

ReferringB == {r \in db0[Items] : r.ref # 0 /\ \E q \in MatchingB : r.ref = q.id}

\* the CYCLE warnings of the current batch
BatchCycles == {i \in LogIdx("CYCLE") : log[i].batch = batch}

\* the walker meets an edge whose key is on its descent
CycleStep ==
    /\ pc = "walk" /\ pc' = "walk"
    /\ Top.phase = "edges"
    /\ Top.ei <= Len(relations_graph[Top.table])
    /\ <<Top.table, CurrentEdge.name, CurrentEdge.parent_columns,
         CurrentEdge.child_columns>> \in edge_path

\* the deletions of a Scenario D batch: the matching B rows, and the B rows
\* referring to them, are deleted before the A rows
ScenarioDDeletes ==
    /\ tx[Items] = db0[Items] \ (MatchingB \cup ReferringB)
    /\ tx[Orders] = db0[Orders] \ RowsMatching(db0[Orders], <<"id">>, keys)
    /\ \A i \in LogIdx("DELETE") : \A j \in LogIdx("DELETE") :
          (log[i].batch = batch /\ log[j].batch = batch
           /\ log[i].tbl = Items /\ log[j].tbl = Orders) => i < j
    /\ failed = "" /\ exit_code = -1

\* C30 (as stated): in Scenario D every walk from expired A rows emits a
\* CYCLE warning for the self-edge on B, skips it without aborting, and
\* deletes the matching B rows and then the A rows.
C30_CyclePolicy ==
    (ScenarioD /\ pc = "commit") =>
        /\ \E i \in BatchCycles : log[i].tbl = Items
        /\ ScenarioDDeletes

\* C30 (amended): in Scenario D the self-edge on B is followed once, when
\* some B row references a matching B row, and the CYCLE warning is emitted
\* in the invocation so entered, once; a batch whose matching B rows are
\* referenced by no B row emits no warning.  An edge whose key is on the
\* descent is skipped with a warning and nothing else, and the walk goes on.
\* In both cases the matching B rows (and the B rows referring to them) are
\* deleted and then the A rows, without abort.
C30_CyclePolicyWhenFollowed ==
    /\ []((ScenarioD /\ pc = "commit") =>
            /\ (ReferringB # {} <=> BatchCycles # {})
            /\ Cardinality(BatchCycles) <= 1
            /\ \A i \in BatchCycles : log[i].tbl = Items
            /\ ScenarioDDeletes)
    /\ [][CycleStep =>
            /\ log' = Append(log, log'[Len(log')]) /\ log'[Len(log')].op = "CYCLE"
            /\ Len(stack') = Len(stack)
            /\ Top'.phase = "edges" /\ Top'.ei = Top.ei + 1
            /\ tx' = tx /\ edge_path' = edge_path /\ delete_totals' = delete_totals
            /\ failed' = failed /\ exit_code' = exit_code]_vars

\* a Scenario D batch that followed the self-edge and warned about the
\* cycle, ready to commit
C30_Witness ==
    /\ ScenarioD /\ pc = "commit"
    /\ BatchCycles # {}
    /\ ReferringB # {}
    /\ tx[Orders] # db0[Orders]

\* the sum of the row counts of the events at the indices in idx
RECURSIVE SumN(_)
SumN(idx) ==
    IF idx = {} THEN 0
    ELSE LET i == CHOOSE x \in idx : TRUE
         IN  log[i].n + SumN(idx \ {i})

\* the batch counter of table t in batch b: the rows its DELETEs removed
BatchCounter(t, b) ==
    SumN({i \in LogIdx("DELETE") : log[i].tbl = t /\ log[i].batch = b})

Committed(b) == \E j \in LogIdx("COMMIT") : log[j].batch = b

\* the batch counters of table t, summed over the committed batches of pass p
CommittedSum(t, p) ==
    SumN({i \in LogIdx("DELETE") :
            log[i].tbl = t /\ log[i].pass = p /\ Committed(log[i].batch)})

\* C31: delete totals.  The batch counters are empty when a batch begins and
\* at the end of the walk hold, per table, the rows the batch's DELETEs
\* removed; whenever the loop of a table is about to fetch the next batch,
\* and when the run has ended on a rolled-back batch, the run counter of each
\* table is the sum of its batch counters over the committed batches of that
\* table's loop; the step that rolls a batch back leaves the run counters as
\* they were.
C31_DeleteTotals ==
    /\ [][(pc = "batch" /\ pc' = "walk") => delete_totals' = EmptyDict]_vars
    /\ []((pc \in {"commit", "flush"}) =>
            \A t \in QTables : DictGet(delete_totals, t) = BatchCounter(t, batch))
    /\ []((pc = "fetch" \/ (pc = "exit" /\ failed \in {"walk", "commit"})) =>
            \A t \in QTables :
                DictGet(run_delete_totals, t) = CommittedSum(t, ti))
    /\ [][(pc' = "exit" /\ failed' \in {"walk", "commit"})
             => run_delete_totals' = run_delete_totals]_vars

\* a batch that deleted rows is rolled back after an earlier batch of the
\* same table committed and was added to the run counters
C31_Witness ==
    /\ pc = "exit"
    /\ failed = "walk"
    /\ \E i \in LogIdx("DELETE") :
          log[i].batch = batch /\ log[i].pass = ti /\ log[i].n > 0
    /\ \E j \in LogIdx("COMMIT") : log[j].pass = ti /\ log[j].batch < batch
    /\ \E t \in DOMAIN run_delete_totals : run_delete_totals[t] > 0

\* the rows buffered for table t, as a list
BufferedRows(t) ==
    IF \E i \in 1..Len(archive_buffers) : archive_buffers[i].table = t
    THEN archive_buffers[CHOOSE i \in 1..Len(archive_buffers) :
                            archive_buffers[i].table = t].rows
    ELSE << >>

\* C32: the archive is the pre-delete snapshot.  In execute mode with archive
\* on, every DELETE of the walker is preceded, in the same invocation and the
\* same transaction, by the SELECT * of the same number of rows; when the
\* batch is about to commit, the rows buffered for each table are as many as
\* the table's batch delete total, no row is buffered twice, and every
\* buffered row is a row the table held before the batch and no longer holds.
C32_ArchivePreDeleteSnapshot ==
    /\ \A i \in LogIdx("DELETE") :
          cfg.tables[log[i].pass].archive =>
              \E j \in LogIdx("ARCHSEL") :
                  /\ j < i
                  /\ log[j].inv = log[i].inv
                  /\ log[j].tbl = log[i].tbl
                  /\ log[j].n = log[i].n
                  /\ SameTransaction(j, i)
    /\ (pc = "commit" /\ conf.archive) =>
          \A t \in QTables :
              LET rows == BufferedRows(t)
              IN  /\ Len(rows) = DictGet(delete_totals, t)
                  /\ \A a \in 1..Len(rows) : \A b \in 1..Len(rows) :
                        a # b => rows[a] # rows[b]
                  /\ \A a \in 1..Len(rows) : rows[a] \in db[t] \ tx[t]

\* a batch with archive on is about to commit after the walker visited one
\* table twice and deleted rows in both visits
C32_Witness ==
    /\ pc = "commit"
    /\ conf.archive
    /\ \E i \in LogIdx("DELETE") : \E k \in LogIdx("DELETE") :
          /\ i < k
          /\ log[i].tbl = log[k].tbl
          /\ log[i].batch = batch /\ log[k].batch = batch
          /\ log[i].n > 0 /\ log[k].n > 0
          /\ Len(BufferedRows(log[i].tbl)) = log[i].n + log[k].n

\* the events that are SQL statements sent on the connection
StatementOps ==
    {"CATALOG", "FETCH", "SET", "LOOKUP", "COUNT", "SELECT", "ARCHSEL", "DELETE",
     "SQLERR"}

\* the SET LOCAL statements whose setting is in effect for event i: those
\* issued before it with no COMMIT or ROLLBACK in between
SetsInEffect(i) == {j \in LogIdx("SET") : j < i /\ SameTransaction(j, i)}

\* C33: statement timeout scope.  A SET LOCAL is issued only for a positive
\* time_out and is the first statement of its transaction; every statement
\* of the walker in a batch of a table with a positive time_out runs under
\* that timeout; a SET LOCAL is in effect only for statements of its own
\* batch of its own table, never for a statement of a later batch or a later
\* table.
C33_StatementTimeoutScope ==
    /\ \A i \in LogIdx("SET") :
          /\ log[i].n > 0
          /\ \A j \in 1..(i - 1) :
                log[j].op \in StatementOps => ~SameTransaction(j, i)
    /\ \A i \in 1..Len(log) :
          (/\ log[i].op \in {"LOOKUP", "COUNT", "SELECT", "ARCHSEL", "DELETE"}
           /\ cfg.tables[log[i].pass].time_out > 0) =>
              \E j \in SetsInEffect(i) :
                  /\ log[j].n = cfg.tables[log[i].pass].time_out
                  /\ \A k \in SetsInEffect(i) : k <= j
    /\ \A i \in 1..Len(log) :
          log[i].op \in StatementOps =>
              \A j \in SetsInEffect(i) :
                  log[j].pass = log[i].pass /\ log[j].batch = log[i].batch

\* the predicate operators of the specification: comparison and pattern
\* operators, IN, IS NULL and IS NOT NULL
SupportedOps ==
    {"<", "<=", "=", ">=", ">", "<>", "LIKE", "ILIKE", "IN", "IS NULL", "IS NOT NULL"}

UnsupportedOp(conds) == \E i \in 1..Len(conds) : conds[i].op \notin SupportedOps

\* some predicate of the configuration, of a table or of one of its
\* relations, has an op outside the supported set
ConfigHasUnknownOp ==
    \E p \in 1..Len(cfg.tables) :
        \/ UnsupportedOp(cfg.tables[p].conditions)
        \/ \E i \in 1..Len(cfg.tables[p].related) :
              UnsupportedOp(cfg.tables[p].related[i].conditions)

\* C34: unknown predicate operators are rejected at config-load time.  With
\* a configuration that holds a predicate whose op is outside the supported
\* set the run ends at the load: no statement is ever sent to the database,
\* in particular none that was composed with that operator, and no row is
\* deleted.
C34_UnknownOpRejectedAtLoad ==
    ConfigHasUnknownOp =>
        /\ \A i \in 1..Len(log) : log[i].op \notin StatementOps
        /\ db = InitialDb

\* the key tuples the child statements (COUNT, SELECT of the child keys) of
\* the edge at hand are sent with
ChildStatementKeys ==
    IF ColSet(CurrentEdge.parent_columns) \subseteq ColSet(Top.key_columns)
    THEN ProjectKeys(Top.parent_keys, Top.key_columns, CurrentEdge.parent_columns)
    ELSE fetch_needed_parent_keys(tx, Top.table, Top.key_columns, Top.parent_keys,
                                  CurrentEdge.parent_columns)

\* the operations of the events a step adds to the log
NewOps == {log'[i].op : i \in (Len(log) + 1)..Len(log')}

\* C35: non-empty key lists.  The walker is called at the top level only
\* with a non-empty batch of keys; every invocation of the walker, at any
\* depth, holds a non-empty list of parent keys, which is the list of its
\* lookups and of its final COUNT, archive SELECT and DELETE; a step that
\* sends a child COUNT or a child key SELECT sends it with a non-empty list
\* of key tuples.
C35_NonEmptyKeyLists ==
    /\ []((pc \in {"batch", "walk"}) => keys # {})
    /\ [](pc = "walk" => \A k \in 1..Len(stack) : stack[k].parent_keys # {})
    /\ [][(/\ pc = "walk"
           /\ Top.phase = "edges"
           /\ NewOps \cap {"COUNT", "SELECT", "SQLERR"} # {})
             => ChildStatementKeys # {}]_vars

\* in one batch a lookup came back empty (the edge was skipped), another
\* returned keys, and the walker recursed into a child
C35_Witness ==
    /\ pc \in {"commit", "summary"}
    /\ \E i \in LogIdx("LOOKUP") : log[i].batch = batch /\ log[i].n = 0
    /\ \E i \in LogIdx("LOOKUP") : log[i].batch = batch /\ log[i].n > 0
    /\ \E i \in Followed : log[i].batch = batch

\* the step in which the loop of a table ends in execute mode: the fetch
\* returned no keys and the [DONE] line is printed
LoopDone == pc = "fetch" /\ pc' = "main" /\ ~cfg.dry_run

\* C36: reported parent total.  When the loop of a table finishes in execute
\* mode, total_deleted (the number printed in the [DONE] line) is the run
\* total recorded for the cleaned table; for the first table of the run it
\* is the number of rows the database has lost from that table.
C36_ReportedParentTotal ==
    [][LoopDone =>
          /\ total_deleted = DictGet(run_delete_totals, table)
          /\ ti = 1 => total_deleted = Cardinality(InitialDb[table] \ db[table])]_vars

C38_ErrorLogTruncation ==
    \A i \in LogIdx("SQLERR") : log[i].n <= 2000

====
